---- MODULE Spec2Model ----
(***************************************************************************)
(* A model of the document generator: the Validation Engine                *)
(* (app/services/critic_agent.py), the Generation & Refinement Loop        *)
(* (app/services/document_generator.py), the Plan Lifecycle                *)
(* (app/services/planning_agent.py), the rate limiter                      *)
(* (app/services/limiter.py) and the TTL cache (app/services/cache.py).    *)
(*                                                                         *)
(* Text is modelled character by character: a line is a sequence of        *)
(* one-character strings, a document is the non-empty sequence of lines    *)
(* that content.split("\n") returns.                                       *)
(***************************************************************************)
EXTENDS Integers, Sequences, FiniteSets, TLC

(***************************************************************************)
(* Bounds of the model.                                                    *)
(***************************************************************************)
\* the wall clock (datetime.utcnow) takes the values 0..MaxClock
MaxClock == 1
\* add_comment is accepted while the plan holds fewer comments than this
MaxComments == 1
\* the longest document (in lines) the completion capability returns
MaxLines == 2
\* the longest model response (in tokens) to an outline or critique prompt
MaxRespLen == 3
\* time.time() takes the values 0..MaxTime
MaxTime == 3
\* RateLimiter(max_requests, window_seconds)
max_requests == 2
window_seconds == 1
\* InMemoryTTLCache(ttl_seconds, max_items)
ttl == 1
max_items == 2

\* Optional values: None is the empty sequence, Some(x) a one-element one.
None == <<>>
Some(x) == <<x>>

(***************************************************************************)
(* Python string operations, on sequences of characters.                   *)
(***************************************************************************)
NL == "\n"

IsSpace(c) == c \in {" ", "\t", NL}

\* a character of the regular expressions' \w class (ASCII)
IsWordChar(c) ==
    c \in {"a", "b", "c", "d", "e", "f", "g", "h", "i", "j", "k", "l", "m",
           "n", "o", "p", "q", "r", "s", "t", "u", "v", "w", "x", "y", "z",
           "A", "B", "C", "D", "E", "F", "G", "H", "I", "J", "K", "L", "M",
           "N", "O", "P", "Q", "R", "S", "T", "U", "V", "W", "X", "Y", "Z",
           "0", "1", "2", "3", "4", "5", "6", "7", "8", "9", "_"}

Drop(s, n) == SubSeq(s, n + 1, Len(s))

startswith(s, p) == Len(s) >= Len(p) /\ SubSeq(s, 1, Len(p)) = p

RECURSIVE lstrip(_)
lstrip(s) == IF s # <<>> /\ IsSpace(Head(s)) THEN lstrip(Tail(s)) ELSE s

RECURSIVE rstrip(_)
rstrip(s) ==
    IF s # <<>> /\ IsSpace(s[Len(s)]) THEN rstrip(SubSeq(s, 1, Len(s) - 1)) ELSE s

strip(s) == rstrip(lstrip(s))

\* str.lstrip("#")
RECURSIVE lstrip_hash(_)
lstrip_hash(s) == IF s # <<>> /\ Head(s) = "#" THEN lstrip_hash(Tail(s)) ELSE s

\* str.count(p): the number of non-overlapping occurrences, left to right
RECURSIVE count(_, _)
count(s, p) ==
    IF Len(s) < Len(p) THEN 0
    ELSE IF startswith(s, p) THEN 1 + count(Drop(s, Len(p)), p)
    ELSE count(Tail(s), p)

\* the position of the first occurrence of p in s at or after position i; 0 if none
RECURSIVE find_from(_, _, _)
find_from(s, p, i) ==
    IF i + Len(p) - 1 > Len(s) THEN 0
    ELSE IF SubSeq(s, i, i + Len(p) - 1) = p THEN i
    ELSE find_from(s, p, i + 1)

\* "\n".join(lines)
RECURSIVE join_lines(_)
join_lines(lines) ==
    IF Len(lines) = 0 THEN <<>>
    ELSE IF Len(lines) = 1 THEN lines[1]
    ELSE lines[1] \o <<NL>> \o join_lines(Tail(lines))

\* str.split("\n"): always at least one element
RECURSIVE split_lines(_)
split_lines(s) ==
    LET i == find_from(s, <<NL>>, 1)
    IN  IF i = 0 THEN <<s>>
        ELSE <<SubSeq(s, 1, i - 1)>> \o split_lines(Drop(s, i))

(***************************************************************************)
(* ValidationSeverity, ValidationIssue, ValidationResult                   *)
(* (critic_agent.py 19-50).                                                *)
(*                                                                         *)
(* An issue's message is kept as its kind plus the numbers the message     *)
(* embeds: line_number (0 stands for Python's None) and, for a mermaid     *)
(* issue, the block number ("Block #i"; 0 when the message names none).    *)
(***************************************************************************)
ERROR == "error"
WARNING == "warning"
INFO == "info"

ValidationIssue(severity, category, kind, line_number, block) ==
    [severity |-> severity, category |-> category, kind |-> kind,
     line_number |-> line_number, block |-> block]

\* ValidationResult(passed=True): no issues, checked_items = 0
NewValidationResult == [passed |-> TRUE, issues |-> <<>>, checked_items |-> 0]

\* a faulty add_issue: the issue is appended, passed is left alone
add_issue_keeps_passed(result, issue) ==
    [result EXCEPT !.issues = Append(@, issue)]

\* ValidationResult.add_issue: append, and an error clears passed
add_issue(result, issue) ==
    [result EXCEPT !.issues = Append(@, issue),
                   !.passed = IF issue.severity = ERROR THEN FALSE ELSE @]

(***************************************************************************)
(* A validator run is the sequence of mutations it applies to its result,  *)
(* in program order: ["checked", n] assigns checked_items, ["passed", b]   *)
(* assigns passed, ["issue", x] is add_issue(x).                           *)
(***************************************************************************)
MutChecked(n) == [op |-> "checked", n |-> n, b |-> TRUE, issue |-> None]
MutPassed(b) == [op |-> "passed", n |-> 0, b |-> b, issue |-> None]
MutIssue(x) == [op |-> "issue", n |-> 0, b |-> TRUE, issue |-> Some(x)]

ApplyMutation(result, m) ==
    CASE m.op = "checked" -> [result EXCEPT !.checked_items = m.n]
      [] m.op = "passed" -> [result EXCEPT !.passed = m.b]
      [] OTHER -> add_issue(result, m.issue[1])

RECURSIVE ApplyMutations(_, _)
ApplyMutations(result, ms) ==
    IF ms = <<>> THEN result
    ELSE ApplyMutations(ApplyMutation(result, Head(ms)), Tail(ms))

RECURSIVE IssueMutations(_)
IssueMutations(issues) ==
    IF issues = <<>> THEN <<>>
    ELSE <<MutIssue(Head(issues))>> \o IssueMutations(Tail(issues))

(***************************************************************************)
(* CriticAgent.validate_markdown_syntax (critic_agent.py 115-211).         *)
(***************************************************************************)
\* the backtick character (a TLA+ string cannot hold one)
BACKTICK == "BACKTICK"

FENCE == <<BACKTICK, BACKTICK, BACKTICK>>

\* re.findall(r"\[([^\]]*)\]\(([^)]*)\)", line): the number of matches whose
\* url group is empty.  A match at p needs "[" at p, the first "]" after p
\* directly followed by "(", and a ")" after that; the scan resumes behind
\* the match, or one character further when there is none at p.
RECURSIVE empty_url_links(_, _)
empty_url_links(line, p) ==
    IF p > Len(line) THEN 0
    ELSE IF line[p] # "[" THEN empty_url_links(line, p + 1)
    ELSE LET j == find_from(line, <<"]">>, p + 1)
             k == IF j = 0 THEN 0 ELSE find_from(line, <<")">>, j + 2)
         IN  IF j # 0 /\ j + 1 <= Len(line) /\ line[j + 1] = "(" /\ k # 0
             THEN (IF k = j + 2 THEN 1 ELSE 0) + empty_url_links(line, k + 1)
             ELSE empty_url_links(line, p + 1)

RECURSIVE Repeat(_, _)
Repeat(x, n) == IF n = 0 THEN <<>> ELSE <<x>> \o Repeat(x, n - 1)

\* the count of leading "#" of a stripped heading line
heading_level(stripped) == Len(stripped) - Len(lstrip_hash(stripped))

\* a faulty hierarchy check: any deeper heading counts as a skip
heading_skip_any_jump(heading_levels, level) ==
    heading_levels # <<>> /\ level > heading_levels[Len(heading_levels)]

\* lines 163: a heading more than one level above the last heading seen
heading_skip(heading_levels, level) ==
    heading_levels # <<>> /\ level > heading_levels[Len(heading_levels)] + 1

\* lines 149-198: the issues of line i outside a fence, in program order
markdown_line_issues(line, i, heading_levels) ==
    LET stripped == strip(line)
        level == heading_level(stripped)
        is_heading == startswith(stripped, <<"#">>)
        backtick_count == count(line, <<BACKTICK>>) - count(line, FENCE) * 3
    IN  (IF is_heading /\ level > 6
         THEN <<ValidationIssue(ERROR, "heading", "heading_level", i, 0)>>
         ELSE <<>>)
        \o (IF is_heading /\ heading_skip(heading_levels, level)
            THEN <<ValidationIssue(WARNING, "heading", "heading_skip", i, 0)>>
            ELSE <<>>)
        \o Repeat(ValidationIssue(WARNING, "link", "empty_url", i, 0),
                  empty_url_links(line, 1))
        \o (IF backtick_count % 2 # 0
            THEN <<ValidationIssue(WARNING, "code", "inline_code", i, 0)>>
            ELSE <<>>)

\* a faulty scan: the lines inside a fence are checked like any other
RECURSIVE markdown_scan_checking_fenced(_, _, _, _, _)
markdown_scan_checking_fenced(lines, i, in_code_block, code_block_start, heading_levels) ==
    IF i > Len(lines)
    THEN [issues |-> <<>>, in_code_block |-> in_code_block,
          code_block_start |-> code_block_start, heading_levels |-> heading_levels]
    ELSE LET stripped == strip(lines[i])
         IN  IF startswith(stripped, FENCE)
             THEN markdown_scan_checking_fenced(lines, i + 1, ~in_code_block,
                                IF in_code_block THEN code_block_start ELSE i,
                                heading_levels)
             ELSE LET here == markdown_line_issues(lines[i], i, heading_levels)
                      levels == IF startswith(stripped, <<"#">>)
                                THEN Append(heading_levels, heading_level(stripped))
                                ELSE heading_levels
                      rest == markdown_scan_checking_fenced(lines, i + 1, in_code_block,
                                            code_block_start, levels)
                  IN  [rest EXCEPT !.issues = here \o @]

\* lines 134-198: the scan from line i on, with the loop's three variables;
\* returns the issues added and the state the loop ends in
RECURSIVE markdown_scan(_, _, _, _, _)
markdown_scan(lines, i, in_code_block, code_block_start, heading_levels) ==
    IF i > Len(lines)
    THEN [issues |-> <<>>, in_code_block |-> in_code_block,
          code_block_start |-> code_block_start, heading_levels |-> heading_levels]
    ELSE LET stripped == strip(lines[i])
         IN  IF startswith(stripped, FENCE)
             THEN markdown_scan(lines, i + 1, ~in_code_block,
                                IF in_code_block THEN code_block_start ELSE i,
                                heading_levels)
             ELSE IF in_code_block
             THEN markdown_scan(lines, i + 1, in_code_block, code_block_start,
                                heading_levels)
             ELSE LET here == markdown_line_issues(lines[i], i, heading_levels)
                      levels == IF startswith(stripped, <<"#">>)
                                THEN Append(heading_levels, heading_level(stripped))
                                ELSE heading_levels
                      rest == markdown_scan(lines, i + 1, in_code_block,
                                            code_block_start, levels)
                  IN  [rest EXCEPT !.issues = here \o @]

\* a faulty report: the error carries no line number
unclosed_code_block_without_line(scan) ==
    IF scan.in_code_block
    THEN <<ValidationIssue(ERROR, "code", "unclosed_code_block", 0, 0)>>
    ELSE <<>>

\* lines 200-209: an open fence at end of input is an error at its start line
unclosed_code_block(scan) ==
    IF scan.in_code_block
    THEN <<ValidationIssue(ERROR, "code", "unclosed_code_block",
                           scan.code_block_start, 0)>>
    ELSE <<>>

\* the mutations validate_markdown_syntax applies to its result, in order
markdown_mutations(content) ==
    LET lines == split_lines(content)
        scan == markdown_scan(lines, 1, FALSE, 0, <<>>)
    IN  <<MutChecked(Len(lines))>>
        \o IssueMutations(scan.issues \o unclosed_code_block(scan))

validate_markdown_syntax(content) ==
    ApplyMutations(NewValidationResult, markdown_mutations(content))

(***************************************************************************)
(* CriticAgent.validate_mermaid_charts (critic_agent.py 213-298).          *)
(***************************************************************************)
MERMAID_TYPES ==
    {<<"f", "l", "o", "w", "c", "h", "a", "r", "t">>,
     <<"g", "r", "a", "p", "h">>,
     <<"s", "e", "q", "u", "e", "n", "c", "e", "D", "i", "a", "g", "r", "a", "m">>,
     <<"c", "l", "a", "s", "s", "D", "i", "a", "g", "r", "a", "m">>,
     <<"s", "t", "a", "t", "e", "D", "i", "a", "g", "r", "a", "m">>,
     <<"s", "t", "a", "t", "e", "D", "i", "a", "g", "r", "a", "m", "-", "v", "2">>,
     <<"e", "r", "D", "i", "a", "g", "r", "a", "m">>,
     <<"g", "a", "n", "t", "t">>,
     <<"p", "i", "e">>,
     <<"j", "o", "u", "r", "n", "e", "y">>,
     <<"g", "i", "t", "G", "r", "a", "p", "h">>,
     <<"m", "i", "n", "d", "m", "a", "p">>,
     <<"t", "i", "m", "e", "l", "i", "n", "e">>,
     <<"q", "u", "a", "d", "r", "a", "n", "t", "C", "h", "a", "r", "t">>,
     <<"x", "y", "c", "h", "a", "r", "t", "-", "b", "e", "t", "a">>,
     <<"b", "l", "o", "c", "k", "-", "b", "e", "t", "a">>}

MERMAID_FENCE == FENCE \o <<"m", "e", "r", "m", "a", "i", "d">>
ARROW == <<"-", "-", ">">>
DASHES == <<"-", "-", "-">>
SUBGRAPH == <<"s", "u", "b", "g", "r", "a", "p", "h">>
PARTICIPANT == <<"p", "a", "r", "t", "i", "c", "i", "p", "a", "n", "t">>
END_WORD == <<"e", "n", "d">>

\* the length of the whitespace run of s that starts at position q
RECURSIVE space_run(_, _)
space_run(s, q) ==
    IF q <= Len(s) /\ IsSpace(s[q]) THEN 1 + space_run(s, q + 1) ELSE 0

\* the last position in q..hi that holds a newline; 0 if none
RECURSIVE last_newline(_, _, _)
last_newline(s, q, hi) ==
    IF hi < q THEN 0
    ELSE IF s[hi] = NL THEN hi
    ELSE last_newline(s, q, hi - 1)

\* re.findall(r"[fence]mermaid\s*\n(.*?)[fence]", content, re.DOTALL) from position p:
\* the greedy \s* gives back up to the last newline of the whitespace run
\* behind the tag, the lazy group ends at the first fence marker behind it,
\* and the scan resumes behind that marker.
RECURSIVE mermaid_blocks_from(_, _)
mermaid_blocks_from(content, p) ==
    LET at == find_from(content, MERMAID_FENCE, p)
        q == at + Len(MERMAID_FENCE)
        nl == last_newline(content, q, q + space_run(content, q) - 1)
        close == IF nl = 0 THEN 0 ELSE find_from(content, FENCE, nl + 1)
    IN  IF at = 0 THEN <<>>
        ELSE IF close = 0 THEN mermaid_blocks_from(content, at + 1)
        ELSE <<SubSeq(content, nl + 1, close - 1)>>
             \o mermaid_blocks_from(content, close + Len(FENCE))

mermaid_blocks(content) == mermaid_blocks_from(content, 1)

endswith(s, p) == Len(s) >= Len(p) /\ SubSeq(s, Len(s) - Len(p) + 1, Len(s)) = p

\* MERMAID_ERROR_PATTERNS (lines 98-105), re.search of pattern n in line
pattern_matches(n, line) ==
    CASE n = 1 -> \E i \in 1..Len(line) :
                      line[i] = "[" /\ startswith(lstrip(Drop(line, i)), <<"[">>)
      [] n = 2 -> \E i \in 1..Len(line) :
                      line[i] = "]" /\ startswith(lstrip(Drop(line, i)), <<"]">>)
      [] n = 3 -> endswith(rstrip(line), ARROW)
      [] n = 4 -> startswith(lstrip(line), ARROW) \/ startswith(lstrip(line), DASHES)
      [] n = 5 -> endswith(rstrip(line), SUBGRAPH)
      [] OTHER -> endswith(rstrip(line), PARTICIPANT)

NumPatterns == 6

RECURSIVE pattern_issues(_, _, _, _)
pattern_issues(block_lines, i, line_num, n) ==
    IF line_num > Len(block_lines) THEN <<>>
    ELSE IF n > NumPatterns THEN pattern_issues(block_lines, i, line_num + 1, 1)
    ELSE (IF pattern_matches(n, block_lines[line_num])
          THEN <<ValidationIssue(ERROR, "mermaid", "syntax_pattern", line_num, i)>>
          ELSE <<>>)
         \o pattern_issues(block_lines, i, line_num, n + 1)

\* len(re.findall(r"\bword\b", s)) from position p
RECURSIVE count_word(_, _, _)
count_word(s, word, p) ==
    LET e == p + Len(word) - 1
    IN  IF e > Len(s) THEN 0
        ELSE IF /\ SubSeq(s, p, e) = word
                /\ (p = 1 \/ ~IsWordChar(s[p - 1]))
                /\ (e = Len(s) \/ ~IsWordChar(s[e + 1]))
        THEN 1 + count_word(s, word, e + 1)
        ELSE count_word(s, word, p + 1)

open_brackets(block) ==
    count(block, <<"[">>) + count(block, <<"{">>) + count(block, <<"(">>)

close_brackets(block) ==
    count(block, <<"]">>) + count(block, <<"}">>) + count(block, <<")">>)

valid_type(first_line) == \E dtype \in MERMAID_TYPES : startswith(first_line, dtype)

\* a faulty check: a block without text is passed over in silence
mermaid_block_issues_skipping_blank(block, i) ==
    LET block_lines == split_lines(strip(block))
        first_line == strip(block_lines[1])
    IN  IF strip(block) = <<>> THEN <<>>
        ELSE (IF ~valid_type(first_line)
              THEN <<ValidationIssue(ERROR, "mermaid", "invalid_type", 0, i)>>
              ELSE <<>>)
             \o pattern_issues(block_lines, i, 1, 1)
             \o (IF open_brackets(block) # close_brackets(block)
                 THEN <<ValidationIssue(WARNING, "mermaid", "unbalanced_brackets", 0, i)>>
                 ELSE <<>>)
             \o (IF count_word(block, SUBGRAPH, 1) # count_word(block, END_WORD, 1)
                 THEN <<ValidationIssue(ERROR, "mermaid", "unclosed_subgraph", 0, i)>>
                 ELSE <<>>)

\* a faulty check: unbalanced brackets are reported as an error
mermaid_block_issues_bracket_error(block, i) ==
    LET block_lines == split_lines(strip(block))
        first_line == strip(block_lines[1])
    IN  (IF ~valid_type(first_line)
         THEN <<ValidationIssue(ERROR, "mermaid", "invalid_type", 0, i)>>
         ELSE <<>>)
        \o pattern_issues(block_lines, i, 1, 1)
        \o (IF open_brackets(block) # close_brackets(block)
            THEN <<ValidationIssue(ERROR, "mermaid", "unbalanced_brackets", 0, i)>>
            ELSE <<>>)
        \o (IF count_word(block, SUBGRAPH, 1) # count_word(block, END_WORD, 1)
            THEN <<ValidationIssue(ERROR, "mermaid", "unclosed_subgraph", 0, i)>>
            ELSE <<>>)

\* lines 236-296: the issues of block number i.  block.strip().split("\n")
\* is never empty, so the "Empty Mermaid block" branch (238-246) is dead.
mermaid_block_issues(block, i) ==
    LET block_lines == split_lines(strip(block))
        first_line == strip(block_lines[1])
    IN  (IF ~valid_type(first_line)
         THEN <<ValidationIssue(ERROR, "mermaid", "invalid_type", 0, i)>>
         ELSE <<>>)
        \o pattern_issues(block_lines, i, 1, 1)
        \o (IF open_brackets(block) # close_brackets(block)
            THEN <<ValidationIssue(WARNING, "mermaid", "unbalanced_brackets", 0, i)>>
            ELSE <<>>)
        \o (IF count_word(block, SUBGRAPH, 1) # count_word(block, END_WORD, 1)
            THEN <<ValidationIssue(ERROR, "mermaid", "unclosed_subgraph", 0, i)>>
            ELSE <<>>)

RECURSIVE mermaid_issues(_, _)
mermaid_issues(blocks, i) ==
    IF i > Len(blocks) THEN <<>>
    ELSE mermaid_block_issues(blocks[i], i) \o mermaid_issues(blocks, i + 1)

\* a faulty validator: the info issue is added whether or not blocks exist
mermaid_mutations_always_info(content) ==
    LET blocks == mermaid_blocks(content)
    IN  <<MutChecked(Len(blocks))>>
        \o <<MutIssue(ValidationIssue(INFO, "mermaid", "no_diagrams", 0, 0))>>
        \o IssueMutations(mermaid_issues(blocks, 1))

\* the mutations validate_mermaid_charts applies to its result, in order
mermaid_mutations(content) ==
    LET blocks == mermaid_blocks(content)
    IN  <<MutChecked(Len(blocks))>>
        \o (IF blocks = <<>>
            THEN <<MutIssue(ValidationIssue(INFO, "mermaid", "no_diagrams", 0, 0))>>
            ELSE IssueMutations(mermaid_issues(blocks, 1)))

validate_mermaid_charts(content) ==
    ApplyMutations(NewValidationResult, mermaid_mutations(content))

(***************************************************************************)
(* Model responses that are expected to carry a JSON object.  A response   *)
(* is a sequence of tokens: "x" is prose, "{" and "}" are braces, every    *)
(* other token is one "key": value member of an object (with the comma it  *)
(* needs).  re.search(r"\{.*\}", text, re.DOTALL) is greedy: it spans from *)
(* the first "{" to the last "}".  json.loads accepts the span when it is  *)
(* one object of well-formed members; a later duplicate key wins.          *)
(***************************************************************************)
RECURSIVE SeqsUpTo(_, _)
SeqsUpTo(S, n) ==
    IF n = 0 THEN {<<>>}
    ELSE LET shorter == SeqsUpTo(S, n - 1)
         IN  shorter \cup {Append(q, x) : q \in {t \in shorter : Len(t) = n - 1}, x \in S}

RECURSIVE last_index(_, _)
last_index(text, tok) ==
    IF text = <<>> THEN 0
    ELSE IF text[Len(text)] = tok THEN Len(text)
    ELSE last_index(SubSeq(text, 1, Len(text) - 1), tok)

\* the span the regular expression matches: None, or Some(tokens)
json_match(text) ==
    LET a == find_from(text, <<"{">>, 1)
        b == last_index(text, "}")
    IN  IF a # 0 /\ b > a THEN Some(SubSeq(text, a, b)) ELSE None

\* json.loads of the span: None for JSONDecodeError, else Some(members)
json_loads(span, Members) ==
    LET inner == SubSeq(span, 2, Len(span) - 1)
    IN  IF \A i \in 1..Len(inner) : inner[i] \in Members THEN Some(inner) ELSE None

\* dict.get(key, default) on a parsed object: members is the member sequence,
\* key_of and value_of read a member token
dict_get(members, key, default, key_of(_), value_of(_)) ==
    LET hits == {i \in 1..Len(members) : key_of(members[i]) = key}
    IN  IF hits = {} THEN default
        ELSE value_of(members[CHOOSE i \in hits : \A j \in hits : j <= i])

(***************************************************************************)
(* CriticAgent.check_content_quality (critic_agent.py 300-366).            *)
(* The critique's members: P1 and P0 are "passed": true / false; IE, IW    *)
(* and II are "issues" lists of one error, warning or info issue; IWE is   *)
(* a warning followed by an error; IX is a list whose one issue has a      *)
(* severity outside ValidationSeverity (ValueError); IWX is a warning      *)
(* followed by such an issue.                                              *)
(***************************************************************************)
CritiqueMembers == {"P1", "P0", "IE", "IW", "II", "IWE", "IX", "IWX"}
CritiqueTokens == {"x", "{", "}"} \cup CritiqueMembers
CritiqueResponses == SeqsUpTo(CritiqueTokens, MaxRespLen)

critique_key(m) == IF m \in {"P1", "P0"} THEN "passed" ELSE "issues"

\* "passed" as a one-element sequence, "issues" as the list of severities
critique_value(m) ==
    CASE m = "P1" -> <<TRUE>>
      [] m = "P0" -> <<FALSE>>
      [] m = "IE" -> <<ERROR>>
      [] m = "IW" -> <<WARNING>>
      [] m = "II" -> <<INFO>>
      [] m = "IWE" -> <<WARNING, ERROR>>
      [] m = "IX" -> <<"critical">>
      [] OTHER -> <<WARNING, "critical">>

COULD_NOT_ANALYSE == ValidationIssue(WARNING, "content", "no_llm_analysis", 0, 0)

\* lines 346-354: one add_issue per listed issue; ValidationSeverity(x) raises
\* ValueError for an unknown severity, which ends the loop in the handler
RECURSIVE critique_issue_mutations(_)
critique_issue_mutations(severities) ==
    IF severities = <<>> THEN <<>>
    ELSE IF Head(severities) \notin {ERROR, WARNING, INFO}
    THEN <<MutIssue(COULD_NOT_ANALYSE)>>
    ELSE <<MutIssue(ValidationIssue(Head(severities), "content", "llm_issue", 0, 0))>>
         \o critique_issue_mutations(Tail(severities))

\* The mutations check_content_quality applies to its result, in order.
\* completion is None when llm.ainvoke raised, else Some(response).
content_mutations(completion) ==
    <<MutChecked(1)>>
    \o (IF completion = None THEN <<MutIssue(COULD_NOT_ANALYSE)>>
        ELSE LET span == json_match(completion[1])
                 data == IF span = None THEN None
                         ELSE json_loads(span[1], CritiqueMembers)
             IN  IF span = None THEN <<>>
                 ELSE IF data = None THEN <<MutIssue(COULD_NOT_ANALYSE)>>
                 ELSE <<MutPassed(dict_get(data[1], "passed", <<TRUE>>,
                                           critique_key, critique_value)[1])>>
                      \o critique_issue_mutations(
                             dict_get(data[1], "issues", <<>>,
                                      critique_key, critique_value)))

check_content_quality(completion) ==
    ApplyMutations(NewValidationResult, content_mutations(completion))

(***************************************************************************)
(* CriticAgent.full_review (critic_agent.py 379-433).                      *)
(***************************************************************************)
RECURSIVE count_severity(_, _)
count_severity(issues, severity) ==
    IF issues = <<>> THEN 0
    ELSE (IF Head(issues).severity = severity THEN 1 ELSE 0)
         + count_severity(Tail(issues), severity)

\* a faulty review: the totals leave the content check's issues out
full_review_ignoring_content(content, check_content) ==
    LET markdown_result == validate_markdown_syntax(content)
        mermaid_result == validate_mermaid_charts(content)
        content_result == IF check_content = None THEN None
                          ELSE Some(check_content_quality(check_content[1]))
        all_issues == markdown_result.issues \o mermaid_result.issues
        total_errors == count_severity(all_issues, ERROR)
    IN  [overall_passed |-> total_errors = 0,
         markdown_result |-> markdown_result,
         mermaid_result |-> mermaid_result,
         content_result |-> content_result,
         total_errors |-> total_errors,
         total_warnings |-> count_severity(all_issues, WARNING)]

\* check_content is the optional completion outcome: None when
\* check_content is false, Some(completion) when the content check ran
full_review(content, check_content) ==
    LET markdown_result == validate_markdown_syntax(content)
        mermaid_result == validate_mermaid_charts(content)
        content_result == IF check_content = None THEN None
                          ELSE Some(check_content_quality(check_content[1]))
        all_issues == markdown_result.issues \o mermaid_result.issues
                      \o (IF content_result = None THEN <<>>
                          ELSE content_result[1].issues)
        total_errors == count_severity(all_issues, ERROR)
    IN  [overall_passed |-> total_errors = 0,
         markdown_result |-> markdown_result,
         mermaid_result |-> mermaid_result,
         content_result |-> content_result,
         total_errors |-> total_errors,
         total_warnings |-> count_severity(all_issues, WARNING)]

(***************************************************************************)
(* PlanStatus, SectionOutline, DocumentPlan (planning_agent.py 19-87).     *)
(* In memory a status is a PlanStatus member; the persisted dictionary     *)
(* holds the member's value.                                               *)
(***************************************************************************)
PENDING_REVIEW == "PlanStatus.PENDING_REVIEW"
APPROVED == "PlanStatus.APPROVED"
GENERATING == "PlanStatus.GENERATING"
COMPLETED == "PlanStatus.COMPLETED"
FAILED == "PlanStatus.FAILED"

PlanStatusMembers == {PENDING_REVIEW, APPROVED, GENERATING, COMPLETED, FAILED}

\* PlanStatus.X.value
status_value(member) ==
    CASE member = PENDING_REVIEW -> "pending_review"
      [] member = APPROVED -> "approved"
      [] member = GENERATING -> "generating"
      [] member = COMPLETED -> "completed"
      [] member = FAILED -> "failed"

\* PlanStatus(value)
PlanStatus(value) == CHOOSE member \in PlanStatusMembers : status_value(member) = value

SectionOutline(title, description, subsections, estimated_length) ==
    [title |-> title, description |-> description, subsections |-> subsections,
     estimated_length |-> estimated_length]

\* dataclasses.asdict(section): the dictionary of the four fields
asdict(section) ==
    [k \in {"title", "description", "subsections", "estimated_length"} |->
        CASE k = "title" -> section.title
          [] k = "description" -> section.description
          [] k = "subsections" -> section.subsections
          [] OTHER -> section.estimated_length]

\* SectionOutline(**d)
section_from_dict(d) ==
    SectionOutline(d["title"], d["description"], d["subsections"], d["estimated_length"])

to_dict(plan) ==
    [plan_id |-> plan.plan_id,
     status |-> status_value(plan.status),
     user_request |-> plan.user_request,
     document_type |-> plan.document_type,
     title |-> plan.title,
     sections |-> [i \in 1..Len(plan.sections) |-> asdict(plan.sections[i])],
     created_at |-> plan.created_at,
     updated_at |-> plan.updated_at,
     user_comments |-> plan.user_comments,
     final_document |-> plan.final_document,
     metadata |-> plan.metadata]

\* a faulty from_dict: final_document is not read back
from_dict_without_final_document(data) ==
    [plan_id |-> data.plan_id,
     status |-> PlanStatus(data.status),
     user_request |-> data.user_request,
     document_type |-> data.document_type,
     title |-> data.title,
     sections |-> [i \in 1..Len(data.sections) |-> section_from_dict(data.sections[i])],
     created_at |-> data.created_at,
     updated_at |-> data.updated_at,
     user_comments |-> data.user_comments,
     final_document |-> None,
     metadata |-> data.metadata]

from_dict(data) ==
    [plan_id |-> data.plan_id,
     status |-> PlanStatus(data.status),
     user_request |-> data.user_request,
     document_type |-> data.document_type,
     title |-> data.title,
     sections |-> [i \in 1..Len(data.sections) |-> section_from_dict(data.sections[i])],
     created_at |-> data.created_at,
     updated_at |-> data.updated_at,
     user_comments |-> data.user_comments,
     final_document |-> data.final_document,
     metadata |-> data.metadata]

(***************************************************************************)
(* PlanningAgent._parse_json_response (planning_agent.py 311-336) and the  *)
(* section lists create_plan and add_comment build from its result.        *)
(* The outline's members: D is "document_type": "api_docs", T is           *)
(* "title": "Refined", S0 is "sections": [], S1 is "sections" with one     *)
(* section {"title": "Intro"}, SB is "sections": ["Intro"] (a string       *)
(* where a dictionary is expected).                                        *)
(***************************************************************************)
OutlineMembers == {"D", "T", "S0", "S1", "SB"}
OutlineTokens == {"x", "{", "}"} \cup OutlineMembers
OutlineResponses == SeqsUpTo(OutlineTokens, MaxRespLen)

outline_key(m) ==
    CASE m = "D" -> "document_type"
      [] m = "T" -> "title"
      [] OTHER -> "sections"

\* a section entry of the JSON list: a dictionary with the keys it holds, or not one
SectionEntry(is_dict, title, description, subsections, estimated_length) ==
    [is_dict |-> is_dict, title |-> title, description |-> description,
     subsections |-> subsections, estimated_length |-> estimated_length]

\* every value is wrapped in Some(..), so that absence is None
outline_value(m) ==
    CASE m = "D" -> Some("api_docs")
      [] m = "T" -> Some("Refined")
      [] m = "S0" -> Some(<<>>)
      [] m = "S1" -> Some(<<SectionEntry(TRUE, Some("Intro"), None, None, None)>>)
      [] OTHER -> Some(<<SectionEntry(FALSE, None, None, None, None)>>)

OutlineData(document_type, title, sections) ==
    [document_type |-> document_type, title |-> title, sections |-> sections]

\* lines 326-336
FALLBACK_OUTLINE ==
    OutlineData(Some("custom"), Some("Document"),
                Some(<<SectionEntry(TRUE, Some("Overview"),
                                    Some("Introduction and overview"),
                                    Some(<<>>), None)>>))

\* a faulty parser: no fallback outline, an empty dictionary instead
_parse_json_response_no_fallback(response) ==
    LET span == json_match(response)
        data == IF span = None THEN None ELSE json_loads(span[1], OutlineMembers)
        members == IF data = None THEN <<>> ELSE data[1]
    IN  OutlineData(dict_get(members, "document_type", None, outline_key, outline_value),
                    dict_get(members, "title", None, outline_key, outline_value),
                    dict_get(members, "sections", None, outline_key, outline_value))

_parse_json_response(response) ==
    LET span == json_match(response)
        data == IF span = None THEN None ELSE json_loads(span[1], OutlineMembers)
    IN  IF data = None THEN FALLBACK_OUTLINE
        ELSE OutlineData(
                 dict_get(data[1], "document_type", None, outline_key, outline_value),
                 dict_get(data[1], "title", None, outline_key, outline_value),
                 dict_get(data[1], "sections", None, outline_key, outline_value))

\* x.get(key, default) on an optional value
get_or(value, default) == IF value = None THEN default ELSE value[1]

\* lines 143-151 and 226-234: None when s.get raises (an entry that is no
\* dictionary), else Some(the SectionOutline list)
sections_from(outline_data) ==
    LET entries == get_or(outline_data.sections, <<>>)
    IN  IF \E i \in 1..Len(entries) : ~entries[i].is_dict THEN None
        ELSE Some([i \in 1..Len(entries) |->
                 SectionOutline(get_or(entries[i].title, "Untitled"),
                                get_or(entries[i].description, ""),
                                get_or(entries[i].subsections, <<>>),
                                get_or(entries[i].estimated_length, "medium"))])

(***************************************************************************)
(* The state.                                                              *)
(***************************************************************************)
VARIABLES
    bucket_name,  \* PlanningAgent.bucket_name: TRUE when a bucket is configured
    store,        \* the key-value store: plan id -> None or Some(dictionary)
    clock,        \* the wall clock datetime.utcnow reads
    req,          \* the requests in flight: slot -> the handler's local state
    last_writer,  \* history: plan id -> the slot whose put wrote the record last
    val,          \* one validator call: the mutations left and its result
    time,         \* the wall clock time.time() reads
    _windows,     \* RateLimiter._windows: key -> None or Some(RateLimitWindow)
    granted,      \* history: key -> the times allow returned True in the window
    _store,       \* InMemoryTTLCache._store: the entries in insertion order
    last_call     \* the call made since the clock last moved and what it returned

\* the state of the limiter and the cache
services == <<time, _windows, granted, _store, last_call>>

vars == <<bucket_name, store, clock, req, last_writer, val, services>>

\* the keys of the limiter and the cache, the cached values
Keys == {"k1", "k2", "k3"}
Values == {"a", "b"}
NoResult == [fn |-> "none", key |-> "", value |-> None]

\* the identifiers uuid4 can hand out, the request texts, the comments
PlanIds == {"p1"}
UserRequests == {"payment api"}
Comments == {"c1", "c2"}
\* the request slots: requests that overlap in time
SlotOrder == <<"r1", "r2">>
Slots == {SlotOrder[i] : i \in 1..Len(SlotOrder)}
NoSlot == "nobody"

(***************************************************************************)
(* Documents.  DocLines are the lines a completion is built from; a        *)
(* document is its text, the lines joined by newlines.                     *)
(***************************************************************************)
DocLines ==
    {<<>>,
     <<"#", " ", "A">>,
     <<"#", "#", " ", "B">>,
     <<"#", "#", "#", " ", "C">>,
     FENCE,
     MERMAID_FENCE,
     <<"g", "r", "a", "p", "h", " ", "T", "D">> \o FENCE,
     <<"A", "-", "-", ">">> \o FENCE,
     <<"[", "a", "]", "(", ")">>}

AllDocs == {join_lines(ls) : ls \in SeqsUpTo(DocLines, MaxLines) \ {<<>>}}

\* texts of a closed fence and a line behind it: the opening fence line
\* alone or followed by a link without URL, inside the fence and behind it a
\* heading of level 1 or 3, a link without URL, or a lone backtick
FencedDocs ==
    {join_lines(<<f, x, FENCE, y>>) :
         f \in {FENCE, FENCE \o <<"[", "a", "]", "(", ")">>},
         x, y \in {<<"#", " ", "A">>, <<"#", "#", "#", " ", "C">>,
                   <<"[", "a", "]", "(", ")">>, <<BACKTICK>>}}

\* texts of two diagram blocks, each an empty block, a flowchart, a block
\* that opens with an arrow, a flowchart with an open bracket, a flowchart
\* with a closing keyword, or a subgraph line with an open parenthesis
TwoBlockDocs ==
    {join_lines(<<MERMAID_FENCE, a, MERMAID_FENCE, b>>) :
         a, b \in {FENCE, <<"g", "r", "a", "p", "h", " ", "T", "D">> \o FENCE,
                   <<"A", "-", "-", ">">> \o FENCE,
                   <<"g", "r", "a", "p", "h", " ", "A", "[">> \o FENCE,
                   <<"g", "r", "a", "p", "h", " ">> \o END_WORD \o FENCE,
                   SUBGRAPH \o <<" ", "(">> \o FENCE}}

\* the completions of the generator's runs: the empty text, a heading (both
\* pass the review), an unclosed fence (fails it) and an unclosed fence
\* followed by the regular expression \d (fails it too)
SampleDocs == {<<>>, <<"#", " ", "A">>, FENCE, FENCE \o <<"\\", "d">>}

\* the answers of the content check in the reviews: no JSON, an object that
\* cannot be decoded, a failed verdict without issues, an error, a warning,
\* a warning with an error, an unknown severity
SampleCritiques ==
    {<<"x">>, <<"{", "x", "}">>, <<"{", "P0", "}">>, <<"{", "IE", "}">>,
     <<"{", "IW", "}">>, <<"{", "IWE", "}">>, <<"{", "IX", "}">>}

\* the plans of the round trip through to_dict and from_dict: every status,
\* no, one and two sections (in both orders), no, one and two comments (in
\* both orders), with and without final document and error
SampleSections ==
    {SectionOutline("Intro", "", <<>>, "medium"),
     SectionOutline("API", "d", <<"a", "b">>, "long")}

SamplePlans ==
    {[plan_id |-> "p1", status |-> st, user_request |-> "payment api",
      document_type |-> "custom", title |-> "Document", sections |-> ss,
      created_at |-> 0, updated_at |-> 1, user_comments |-> cs,
      final_document |-> fd, metadata |-> [error |-> er]] :
         st \in PlanStatusMembers,
         ss \in {<<>>} \cup {<<x>> : x \in SampleSections}
                \cup {<<x, y>> : x \in SampleSections, y \in SampleSections},
         cs \in {<<>>, <<"c1">>, <<"c1", "c2">>, <<"c2", "c1">>},
         fd \in {None, Some(<<"#", " ", "A">>)},
         er \in {None, Some("completion failed")}}

\* the outline responses of the plan workflow's runs: prose without JSON, a
\* full outline, an outline without sections, an empty object, and a section
\* list that holds a string
SampleOutlines ==
    {<<"x">>, <<"x", "{", "D", "T", "S1", "}">>, <<"{", "S0", "}">>, <<"{", "}">>,
     <<"{", "SB", "}">>}

\* overlapping requests run on one outline, one document and one comment
OverlapOutlines == {<<"{", "D", "T", "S1", "}">>}
OverlapDocs == {<<"#", " ", "A">>}
OverlapComments == {"c1"}

(***************************************************************************)
(* DocumentGenerator.generate (document_generator.py 99-221): the local    *)
(* state of one call.                                                      *)
(***************************************************************************)
max_iterations == 5

NoGeneration ==
    [pc |-> "none", library_name |-> FALSE, requirements |-> "",
     additional_context |-> FALSE, context_parts |-> <<>>, content |-> None,
     iteration |-> -1, calls |-> 0, error |-> "", refinement_iterations |-> -1]

\* lines 131-138: behind the library fetch comes the knowledge-base fetch when
\* requirements were given, else the prompt
after_library(requirements) == IF requirements # "" THEN "kb" ELSE "complete"

\* a faulty entry: the knowledge-base fetch is issued first
generate_entry_kb_first(library_name, requirements, additional_context) ==
    [NoGeneration EXCEPT !.pc = IF requirements # "" THEN "kb"
                                ELSE IF library_name THEN "library" ELSE "complete",
                         !.library_name = library_name,
                         !.requirements = requirements,
                         !.additional_context = additional_context]

\* the state on entry: the arguments, nothing fetched yet
generate_entry(library_name, requirements, additional_context) ==
    [NoGeneration EXCEPT !.pc = IF library_name THEN "library"
                                ELSE after_library(requirements),
                         !.library_name = library_name,
                         !.requirements = requirements,
                         !.additional_context = additional_context]

IdleRequest ==
    [op |-> "none", pc |-> "idle", plan_id |-> "", comment |-> "",
     plan |-> None, outline |-> None, ret |-> None, exc |-> "", gen |-> NoGeneration,
     read |-> None, wrote |-> FALSE]

IdleValidation ==
    [fn |-> "none", input |-> None, todo |-> <<>>, result |-> NewValidationResult]

Init ==
    /\ bucket_name \in BOOLEAN
    /\ store = [p \in PlanIds |-> None]
    /\ clock = 0
    /\ req = [r \in Slots |-> IdleRequest]
    /\ last_writer = [p \in PlanIds |-> NoSlot]
    /\ val = IdleValidation
    /\ time = 0
    /\ _windows = [k \in Keys |-> None]
    /\ granted = [k \in Keys |-> 0]
    /\ _store = <<>>
    /\ last_call = NoResult

utcnow == clock

Tick ==
    /\ clock < MaxClock
    /\ clock' = clock + 1
    /\ UNCHANGED <<bucket_name, store, req, last_writer, val, services>>

(***************************************************************************)
(* PlanningAgent.get_plan and _save_plan (planning_agent.py 169-197).      *)
(***************************************************************************)
\* a faulty read: a missing record gives a blank plan instead of None
get_plan_or_blank(plan_id, get_ok) ==
    IF ~bucket_name THEN None
    ELSE IF get_ok /\ store[plan_id] # None THEN Some(from_dict(store[plan_id][1]))
    ELSE IF get_ok
    THEN Some([plan_id |-> plan_id, status |-> PENDING_REVIEW, user_request |-> "",
               document_type |-> "custom", title |-> "Document", sections |-> <<>>,
               created_at |-> utcnow, updated_at |-> utcnow, user_comments |-> <<>>,
               final_document |-> None, metadata |-> [error |-> None]])
    ELSE None

\* get_ok: whether get_object and the decoding succeed (any exception, a
\* missing key included, is logged and gives None)
get_plan(plan_id, get_ok) ==
    IF ~bucket_name THEN None
    ELSE IF get_ok /\ store[plan_id] # None THEN Some(from_dict(store[plan_id][1]))
    ELSE None

\* a faulty save: the write is merged with the stored record, whose
\* user_comments are kept when there are more of them
_save_plan_merging(r, plan, put_ok) ==
    IF ~bucket_name
    THEN [store |-> store, last_writer |-> last_writer, returned |-> TRUE,
          wrote |-> FALSE]
    ELSE IF put_ok
    THEN [store |-> [store EXCEPT ![plan.plan_id] =
                       IF @ # None /\ Len(@[1].user_comments) > Len(plan.user_comments)
                       THEN Some([to_dict(plan) EXCEPT !.user_comments = store[plan.plan_id][1].user_comments])
                       ELSE Some(to_dict(plan))],
          last_writer |-> [last_writer EXCEPT ![plan.plan_id] = r],
          returned |-> TRUE, wrote |-> TRUE]
    ELSE [store |-> store, last_writer |-> last_writer, returned |-> FALSE,
          wrote |-> FALSE]

\* The effect of _save_plan(plan) by slot r: the store and history after it,
\* whether it returned (put_object's exception is not caught) and whether it
\* wrote the record.
_save_plan(r, plan, put_ok) ==
    IF ~bucket_name
    THEN [store |-> store, last_writer |-> last_writer, returned |-> TRUE,
          wrote |-> FALSE]
    ELSE IF put_ok
    THEN [store |-> [store EXCEPT ![plan.plan_id] = Some(to_dict(plan))],
          last_writer |-> [last_writer EXCEPT ![plan.plan_id] = r],
          returned |-> TRUE, wrote |-> TRUE]
    ELSE [store |-> store, last_writer |-> last_writer, returned |-> FALSE,
          wrote |-> FALSE]

\* a handler ends: with a plan, with None, or by raising
Returns(r, plan) == [req[r] EXCEPT !.pc = "done", !.ret = plan]

\* a faulty end: the exception is swallowed and the in-memory plan returned
Raises_returning_plan(r, exc) == [req[r] EXCEPT !.pc = "done", !.ret = req[r].plan]
Raises(r, exc) == [req[r] EXCEPT !.pc = "done", !.ret = None, !.exc = exc]

\* a slot takes a new request only when the slots before it are busy
Free(r) ==
    /\ req[r].pc = "idle"
    /\ \A i, j \in 1..Len(SlotOrder) :
           i < j /\ SlotOrder[j] = r => req[SlotOrder[i]].pc # "idle"

(***************************************************************************)
(* PlanningAgent.create_plan (planning_agent.py 126-167).  The handler     *)
(* touches the store once, at its end, so it is one step.  completion is   *)
(* None when llm.ainvoke raises, else Some(response).                      *)
(***************************************************************************)
new_plan(plan_id, user_request, outline_data, sections, now) ==
    [plan_id |-> plan_id,
     status |-> PENDING_REVIEW,
     user_request |-> user_request,
     document_type |-> get_or(outline_data.document_type, "custom"),
     title |-> get_or(outline_data.title, "Document"),
     sections |-> sections,
     created_at |-> now,
     updated_at |-> now,
     user_comments |-> <<>>,
     final_document |-> None,
     metadata |-> [error |-> None]]

create_plan(r, user_request, completion, put_ok) ==
    /\ Free(r)
    /\ \E plan_id \in PlanIds :
        /\ store[plan_id] = None
        /\ LET now == utcnow
               outline_data == _parse_json_response(completion[1])
               sections == sections_from(outline_data)
               plan == new_plan(plan_id, user_request, outline_data, sections[1], now)
               saved == _save_plan(r, plan, put_ok)
               started == [req[r] EXCEPT !.op = "create_plan"]
               parsed == [started EXCEPT !.outline = Some(outline_data)]
           IN  IF completion = None
               THEN /\ req' = [req EXCEPT ![r] =
                               [started EXCEPT !.pc = "done", !.exc = "completion failed"]]
                    /\ UNCHANGED <<store, last_writer>>
               ELSE IF sections = None
               THEN /\ req' = [req EXCEPT ![r] =
                               [parsed EXCEPT !.pc = "done", !.exc = "AttributeError"]]
                    /\ UNCHANGED <<store, last_writer>>
               ELSE /\ store' = saved.store
                    /\ last_writer' = saved.last_writer
                    /\ req' = [req EXCEPT ![r] =
                               IF saved.returned
                               THEN [parsed EXCEPT !.pc = "done", !.plan = Some(plan),
                                                   !.ret = Some(plan),
                                                   !.wrote = saved.wrote]
                               ELSE [parsed EXCEPT !.pc = "done", !.plan = Some(plan),
                                                   !.exc = "put_object failed"]]
    /\ UNCHANGED <<bucket_name, clock, val, services>>

(***************************************************************************)
(* The handler of GET /v1/plans/{plan_id}: get_plan alone.                 *)
(***************************************************************************)
view_plan(r, plan_id, get_ok) ==
    /\ Free(r)
    /\ req' = [req EXCEPT ![r] =
                 [@ EXCEPT !.op = "get_plan", !.pc = "done", !.plan_id = plan_id,
                           !.read = get_plan(plan_id, get_ok),
                           !.ret = get_plan(plan_id, get_ok)]]
    /\ UNCHANGED <<bucket_name, store, clock, last_writer, val, services>>

(***************************************************************************)
(* PlanningAgent.add_comment (planning_agent.py 199-241): the read, then   *)
(* (behind the completion call) the refinement and the write.              *)
(***************************************************************************)
add_comment_get(r, plan_id, comment, get_ok) ==
    /\ Free(r)
    /\ LET plan == get_plan(plan_id, get_ok)
           started == [req[r] EXCEPT !.op = "add_comment", !.plan_id = plan_id,
                                     !.comment = comment, !.read = plan]
       IN  /\ plan # None => Len(plan[1].user_comments) < MaxComments
           /\ req' = [req EXCEPT ![r] =
                IF plan = None THEN [started EXCEPT !.pc = "done"]
                ELSE [started EXCEPT !.pc = "refine",
                         !.plan = Some([plan[1] EXCEPT !.user_comments = Append(@, comment)])]]
    /\ UNCHANGED <<bucket_name, store, clock, last_writer, val, services>>

\* a faulty refinement: the comments collected so far are dropped
refined_plan_drops_comments(plan, refined_data, sections, now) ==
    [plan EXCEPT !.sections = sections,
                 !.title = get_or(refined_data.title, plan.title),
                 !.updated_at = now,
                 !.user_comments = <<>>]

\* a faulty refinement: the plan goes back to pending_review
refined_plan_resets_status(plan, refined_data, sections, now) ==
    [plan EXCEPT !.sections = sections,
                 !.title = get_or(refined_data.title, plan.title),
                 !.updated_at = now,
                 !.status = PENDING_REVIEW]

\* lines 226-236: the plan with the refined outline
refined_plan(plan, refined_data, sections, now) ==
    [plan EXCEPT !.sections = sections,
                 !.title = get_or(refined_data.title, plan.title),
                 !.updated_at = now]

add_comment_refine(r, completion, put_ok) ==
    /\ req[r].op = "add_comment" /\ req[r].pc = "refine"
    /\ LET refined_data == _parse_json_response(completion[1])
           sections == sections_from(refined_data)
           plan == refined_plan(req[r].plan[1], refined_data, sections[1], utcnow)
           saved == _save_plan(r, plan, put_ok)
       IN  IF completion = None
           THEN /\ req' = [req EXCEPT ![r] = Raises(r, "completion failed")]
                /\ UNCHANGED <<store, last_writer>>
           ELSE IF sections = None
           THEN /\ req' = [req EXCEPT ![r] =
                               [Raises(r, "AttributeError") EXCEPT
                                    !.outline = Some(refined_data)]]
                /\ UNCHANGED <<store, last_writer>>
           ELSE /\ store' = saved.store
                /\ last_writer' = saved.last_writer
                /\ req' = [req EXCEPT ![r] =
                             IF saved.returned
                             THEN [@ EXCEPT !.pc = "done", !.plan = Some(plan),
                                            !.outline = Some(refined_data),
                                            !.ret = Some(plan), !.wrote = saved.wrote]
                             ELSE [@ EXCEPT !.pc = "done", !.plan = Some(plan),
                                            !.outline = Some(refined_data),
                                            !.exc = "put_object failed"]]
    /\ UNCHANGED <<bucket_name, clock, val, services>>

(***************************************************************************)
(* PlanningAgent.approve_plan (planning_agent.py 243-254): the read and    *)
(* the write are two requests to the store.                                *)
(***************************************************************************)
approve_plan_get(r, plan_id, get_ok) ==
    /\ Free(r)
    /\ LET plan == get_plan(plan_id, get_ok)
           started == [req[r] EXCEPT !.op = "approve_plan", !.plan_id = plan_id,
                                     !.read = plan]
       IN  req' = [req EXCEPT ![r] =
                IF plan = None THEN [started EXCEPT !.pc = "done"]
                ELSE [started EXCEPT !.pc = "approve", !.plan = plan]]
    /\ UNCHANGED <<bucket_name, store, clock, last_writer, val, services>>

\* a faulty approval: updated_at is not touched
approved_plan_status_only(plan, now) == [plan EXCEPT !.status = APPROVED]

\* lines 249-250
approved_plan(plan, now) == [plan EXCEPT !.status = APPROVED, !.updated_at = now]

approve_plan_save(r, put_ok) ==
    /\ req[r].op = "approve_plan" /\ req[r].pc = "approve"
    /\ LET plan == approved_plan(req[r].plan[1], utcnow)
           saved == _save_plan(r, plan, put_ok)
       IN  /\ store' = saved.store
           /\ last_writer' = saved.last_writer
           /\ req' = [req EXCEPT ![r] =
                        IF saved.returned
                        THEN [@ EXCEPT !.pc = "done", !.plan = Some(plan),
                                       !.ret = Some(plan), !.wrote = saved.wrote]
                        ELSE [@ EXCEPT !.pc = "done", !.plan = Some(plan),
                                       !.exc = "put_object failed"]]
    /\ UNCHANGED <<bucket_name, clock, val, services>>

\* the response is sent: the slot is free again
respond(r) ==
    /\ req[r].pc = "done"
    /\ req' = [req EXCEPT ![r] = IdleRequest]
    /\ UNCHANGED <<bucket_name, store, clock, last_writer, val, services>>

(***************************************************************************)
(* DocumentGenerator.generate (document_generator.py 99-221), one step per *)
(* awaited call.  g is the call's local state; each operator gives the     *)
(* state after the step.                                                   *)
(***************************************************************************)
generate_raises(g, error) == [g EXCEPT !.pc = "raised", !.error = error]

\* lines 205-221: the loop is left; metadata records iteration + 1
generate_returns(g) ==
    [g EXCEPT !.pc = "returned", !.refinement_iterations = g.iteration + 1]

\* lines 126-128 with _get_library_context (76-89).  outcome: "docs" (the
\* documentation, or the "No documentation found" text), "Context7Error"
\* (replaced by the placeholder note) or "error" (any other exception)
library_step(g, outcome) ==
    CASE outcome = "docs" ->
            [g EXCEPT !.pc = after_library(g.requirements),
                      !.context_parts = Append(@, "library_context")]
      [] outcome = "Context7Error" ->
            [g EXCEPT !.pc = after_library(g.requirements),
                      !.context_parts = Append(@, "library_placeholder")]
      [] OTHER -> generate_raises(g, "library lookup failed")

\* a faulty aggregation: the knowledge-base passages are put in front
kb_step_prepending(g, outcome) ==
    IF outcome = "context"
    THEN [g EXCEPT !.pc = "complete", !.context_parts = <<"kb_context">> \o @]
    ELSE [g EXCEPT !.pc = "complete"]

\* lines 131-134 with _get_kb_context (91-97).  outcome: "context" (never
\* empty: get_context_for_generation returns a text even without results)
\* or "KnowledgeBaseError" (the empty string, which is dropped)
kb_step(g, outcome) ==
    IF outcome = "context"
    THEN [g EXCEPT !.pc = "complete", !.context_parts = Append(@, "kb_context")]
    ELSE [g EXCEPT !.pc = "complete"]

\* lines 137-159: the additional context, the prompt, the first completion
complete_step(g, render_ok, completion) ==
    LET parts == IF g.additional_context
                 THEN Append(g.context_parts, "additional_context")
                 ELSE g.context_parts
        h == [g EXCEPT !.context_parts = parts]
    IN  IF ~render_ok THEN generate_raises(h, "Template error")
        ELSE IF completion = None
        THEN generate_raises([h EXCEPT !.calls = @ + 1], "completion failed")
        ELSE [h EXCEPT !.pc = "review", !.calls = @ + 1, !.content = completion]

\* lines 179-183: the issue lines of the repair prompt
collected_issues(report) == report.markdown_result.issues \o report.mermaid_result.issues

\* a faulty review: check_content is left at its default, the content check
\* asks the completion capability (which raises here)
review_step_checking_content(g) ==
    LET h == [g EXCEPT !.iteration = @ + 1, !.calls = @ + 1]
        report == full_review(g.content[1], Some(None))
    IN  IF report.overall_passed THEN generate_returns(h)
        ELSE IF collected_issues(report) = <<>> THEN generate_returns(h)
        ELSE [h EXCEPT !.pc = "repair"]

\* a faulty loop: a failed review ends the loop and the content is accepted
review_step_accepting_failure(g) ==
    LET h == [g EXCEPT !.iteration = @ + 1]
        report == full_review(g.content[1], None)
    IN  IF report.overall_passed THEN generate_returns(h)
        ELSE generate_returns(h)

\* lines 163-187: the next iteration begins with the review of the content
review_step(g) ==
    LET h == [g EXCEPT !.iteration = @ + 1]
        report == full_review(g.content[1], None)
    IN  IF report.overall_passed THEN generate_returns(h)
        ELSE IF collected_issues(report) = <<>> THEN generate_returns(h)
        ELSE [h EXCEPT !.pc = "repair"]

(***************************************************************************)
(* PromptLoader.render (app/core/prompts.py 45-63) substitutes a variable  *)
(* with re.sub(pattern, str(value), template): the value is a replacement  *)
(* template, in which a backslash starts an escape.  re raises for a       *)
(* backslash at the end, before an ASCII letter that is no known escape,   *)
(* and before a group number (the pattern has no group).                   *)
(***************************************************************************)
BACKSLASH == "\\"

ASCII_LETTERS ==
    {"a", "b", "c", "d", "e", "f", "g", "h", "i", "j", "k", "l", "m", "n", "o", "p",
     "q", "r", "s", "t", "u", "v", "w", "x", "y", "z",
     "A", "B", "C", "D", "E", "F", "G", "H", "I", "J", "K", "L", "M", "N", "O", "P",
     "Q", "R", "S", "T", "U", "V", "W", "X", "Y", "Z"}

\* the escapes a replacement template knows
ESCAPES == {"a", "b", "f", "n", "r", "t", "v", BACKSLASH, "0"}

GROUP_DIGITS == {"1", "2", "3", "4", "5", "6", "7", "8", "9"}

\* whether re accepts the value as a replacement template
RECURSIVE template_expands(_)
template_expands(value) ==
    IF value = <<>> THEN TRUE
    ELSE IF Head(value) # BACKSLASH THEN template_expands(Tail(value))
    ELSE IF Len(value) = 1 THEN FALSE
    ELSE IF value[2] \in ESCAPES THEN template_expands(Drop(value, 2))
    ELSE IF value[2] \in ASCII_LETTERS \cup GROUP_DIGITS THEN FALSE
    ELSE template_expands(Drop(value, 2))

\* a faulty loop bound: one iteration more
repair_step_one_more(g, completion) ==
    IF ~template_expands(g.content[1]) THEN generate_raises(g, "bad escape")
    ELSE IF completion = None
    THEN generate_raises([g EXCEPT !.calls = @ + 1], "completion failed")
    ELSE LET h == [g EXCEPT !.calls = @ + 1, !.content = completion]
         IN  IF g.iteration + 1 >= max_iterations + 1 THEN generate_returns(h)
             ELSE [h EXCEPT !.pc = "review"]

\* lines 189-203: the repair prompt is rendered from the content, the repair
\* completion replaces the content; the loop ends behind the repair of its
\* last iteration
repair_step(g, completion) ==
    IF ~template_expands(g.content[1]) THEN generate_raises(g, "bad escape")
    ELSE IF completion = None
    THEN generate_raises([g EXCEPT !.calls = @ + 1], "completion failed")
    ELSE LET h == [g EXCEPT !.calls = @ + 1, !.content = completion]
         IN  IF g.iteration + 1 >= max_iterations THEN generate_returns(h)
             ELSE [h EXCEPT !.pc = "review"]



\* a completion: the call raises, or returns one of Docs
Completions(Docs) == {None} \cup {Some(d) : d \in Docs}

\* The states in which a call that stands at g can end, its completions
\* drawn from Docs: every run of the steps above.
RECURSIVE generate_outcomes(_, _)
generate_outcomes(g, Docs) ==
    CASE g.pc \in {"returned", "raised"} -> {g}
      [] g.pc = "library" ->
            UNION {generate_outcomes(library_step(g, o), Docs) :
                       o \in {"docs", "Context7Error", "error"}}
      [] g.pc = "kb" ->
            UNION {generate_outcomes(kb_step(g, o), Docs) :
                       o \in {"context", "KnowledgeBaseError"}}
      [] g.pc = "complete" ->
            UNION {generate_outcomes(complete_step(g, ok, c), Docs) :
                       ok \in BOOLEAN, c \in Completions(Docs)}
      [] g.pc = "review" -> generate_outcomes(review_step(g), Docs)
      [] g.pc = "repair" ->
            UNION {generate_outcomes(repair_step(g, c), Docs) : c \in Completions(Docs)}
      [] OTHER -> {}

(***************************************************************************)
(* The handler of POST /v1/generate: DocumentGenerator.generate called on  *)
(* its own, one step per awaited call.                                     *)
(***************************************************************************)
Generating(r) == req[r].pc = "generate"

generate(r, library_name, requirements, additional_context) ==
    /\ Free(r)
    /\ req' = [req EXCEPT ![r] =
                 [@ EXCEPT !.op = "generate", !.pc = "generate",
                           !.gen = generate_entry(library_name, requirements,
                                                  additional_context)]]
    /\ UNCHANGED <<bucket_name, store, clock, last_writer, val, services>>

gen_library(r, outcome) ==
    /\ Generating(r) /\ req[r].gen.pc = "library"
    /\ req' = [req EXCEPT ![r].gen = library_step(@, outcome)]
    /\ UNCHANGED <<bucket_name, store, clock, last_writer, val, services>>

gen_kb(r, outcome) ==
    /\ Generating(r) /\ req[r].gen.pc = "kb"
    /\ req' = [req EXCEPT ![r].gen = kb_step(@, outcome)]
    /\ UNCHANGED <<bucket_name, store, clock, last_writer, val, services>>

gen_complete(r, render_ok, completion) ==
    /\ Generating(r) /\ req[r].gen.pc = "complete"
    /\ req' = [req EXCEPT ![r].gen = complete_step(@, render_ok, completion)]
    /\ UNCHANGED <<bucket_name, store, clock, last_writer, val, services>>

gen_review(r) ==
    /\ Generating(r) /\ req[r].gen.pc = "review"
    /\ req' = [req EXCEPT ![r].gen = review_step(@)]
    /\ UNCHANGED <<bucket_name, store, clock, last_writer, val, services>>

gen_repair(r, completion) ==
    /\ Generating(r) /\ req[r].gen.pc = "repair"
    /\ req' = [req EXCEPT ![r].gen = repair_step(@, completion)]
    /\ UNCHANGED <<bucket_name, store, clock, last_writer, val, services>>

\* the call is over: the handler answers with the result or the error
gen_end(r) ==
    /\ req[r].op = "generate" /\ Generating(r)
    /\ req[r].gen.pc \in {"returned", "raised"}
    /\ req' = [req EXCEPT ![r] = [@ EXCEPT !.pc = "done", !.exc = req[r].gen.error]]
    /\ UNCHANGED <<bucket_name, store, clock, last_writer, val, services>>

(***************************************************************************)
(* PlanningAgent.generate_from_plan (planning_agent.py 256-298).           *)
(***************************************************************************)
\* a faulty guard: the status is not looked at
accepts_any_status(plan) == plan # None

\* a faulty guard: a plan that is being generated is accepted as well
accepts_generating(plan) == plan # None /\ plan[1].status \in {APPROVED, GENERATING}

\* line 261: the plan exists and is approved
accepts(plan) == plan # None /\ plan[1].status = APPROVED

generate_from_plan_get(r, plan_id, get_ok) ==
    /\ Free(r)
    /\ LET plan == get_plan(plan_id, get_ok)
           started == [req[r] EXCEPT !.op = "generate_from_plan",
                                     !.plan_id = plan_id, !.read = plan]
       IN  req' = [req EXCEPT ![r] =
                IF ~accepts(plan) THEN [started EXCEPT !.pc = "done"]
                ELSE [started EXCEPT !.pc = "mark", !.plan = plan]]
    /\ UNCHANGED <<bucket_name, store, clock, last_writer, val, services>>

\* a faulty mark: the status is set in memory only
mark_without_save(r, plan, put_ok) ==
    [store |-> store, last_writer |-> last_writer, returned |-> TRUE, wrote |-> FALSE]

\* lines 264-265: the status is written before the generator is called
mark_generating(r, plan, put_ok) == _save_plan(r, plan, put_ok)

generate_from_plan_mark(r, put_ok) ==
    /\ req[r].op = "generate_from_plan" /\ req[r].pc = "mark"
    /\ LET plan == [req[r].plan[1] EXCEPT !.status = GENERATING]
           saved == mark_generating(r, plan, put_ok)
       IN  /\ store' = saved.store
           /\ last_writer' = saved.last_writer
           /\ req' = [req EXCEPT ![r] =
                IF saved.returned
                THEN [@ EXCEPT !.pc = "generate", !.plan = Some(plan),
                               !.wrote = saved.wrote,
                               !.gen = generate_entry(FALSE, plan.user_request, TRUE)]
                ELSE [@ EXCEPT !.pc = "done", !.plan = Some(plan),
                               !.exc = "put_object failed"]]
    /\ UNCHANGED <<bucket_name, clock, val, services>>

\* lines 288-295: the plan after the generator returned or raised
finished_plan(plan, g, now) ==
    IF g.pc = "returned"
    THEN [plan EXCEPT !.final_document = g.content, !.status = COMPLETED,
                      !.updated_at = now]
    ELSE [plan EXCEPT !.status = FAILED, !.metadata = [error |-> Some(g.error)]]

\* lines 267-298: the generator runs to one of its ends g, its completions
\* drawn from Docs; the outcome is written
generate_from_plan_finish(r, Docs, put_ok) ==
    /\ req[r].op = "generate_from_plan" /\ Generating(r)
    /\ \E g \in generate_outcomes(req[r].gen, Docs) :
       LET plan == finished_plan(req[r].plan[1], g, utcnow)
           saved == _save_plan(r, plan, put_ok)
       IN  /\ store' = saved.store
           /\ last_writer' = saved.last_writer
           /\ req' = [req EXCEPT ![r] =
                IF saved.returned
                THEN [@ EXCEPT !.pc = "done", !.gen = g, !.plan = Some(plan),
                               !.ret = Some(plan), !.wrote = @ \/ saved.wrote]
                ELSE [@ EXCEPT !.pc = "done", !.gen = g, !.plan = Some(plan),
                               !.exc = "put_object failed"]]
    /\ UNCHANGED <<bucket_name, clock, val, services>>

(***************************************************************************)
(* One validator call of CriticAgent, one step per mutation of its result. *)
(***************************************************************************)
validate_markdown_syntax_call(content) ==
    /\ val.fn = "none"
    /\ val' = [fn |-> "validate_markdown_syntax", input |-> Some(content),
               todo |-> markdown_mutations(content), result |-> NewValidationResult]
    /\ UNCHANGED <<bucket_name, store, clock, req, last_writer, services>>

validate_mermaid_charts_call(content) ==
    /\ val.fn = "none"
    /\ val' = [fn |-> "validate_mermaid_charts", input |-> Some(content),
               todo |-> mermaid_mutations(content), result |-> NewValidationResult]
    /\ UNCHANGED <<bucket_name, store, clock, req, last_writer, services>>

check_content_quality_call(completion) ==
    /\ val.fn = "none"
    /\ val' = [fn |-> "check_content_quality", input |-> completion,
               todo |-> content_mutations(completion), result |-> NewValidationResult]
    /\ UNCHANGED <<bucket_name, store, clock, req, last_writer, services>>

validator_mutates ==
    /\ val.fn # "none" /\ val.todo # <<>>
    /\ val' = [val EXCEPT !.result = ApplyMutation(@, Head(val.todo)),
                          !.todo = Tail(@)]
    /\ UNCHANGED <<bucket_name, store, clock, req, last_writer, services>>

validator_returns ==
    /\ val.fn # "none" /\ val.todo = <<>>
    /\ val' = IdleValidation
    /\ UNCHANGED <<bucket_name, store, clock, req, last_writer, services>>

(***************************************************************************)
(* One call of CriticAgent.full_review (critic_agent.py 379-433): the      *)
(* report is the call's result.  check_content is None for                 *)
(* check_content=False, else Some(the outcome of the completion call).     *)
(***************************************************************************)
full_review_call(content, check_content) ==
    /\ val.fn = "none"
    /\ val' = [fn |-> "full_review", input |-> check_content, todo |-> <<>>,
               result |-> full_review(content, check_content)]
    /\ UNCHANGED <<bucket_name, store, clock, req, last_writer, services>>

(***************************************************************************)
(* A plan written and read back: DocumentPlan.to_dict, then                *)
(* DocumentPlan.from_dict (planning_agent.py 55-87).                       *)
(***************************************************************************)
round_trip(r, plan) ==
    /\ Free(r)
    /\ req' = [req EXCEPT ![r] =
                 [@ EXCEPT !.op = "round_trip", !.pc = "done", !.plan_id = plan.plan_id,
                           !.plan = Some(plan),
                           !.ret = Some(from_dict(to_dict(plan)))]]
    /\ UNCHANGED <<bucket_name, store, clock, last_writer, val, services>>

(***************************************************************************)
(* The wall clock of time.time().                                          *)
(***************************************************************************)
time_passes ==
    /\ time < MaxTime
    /\ time' = time + 1
    /\ last_call' = NoResult
    /\ UNCHANGED <<bucket_name, store, clock, req, last_writer, val,
                   _windows, granted, _store>>

(***************************************************************************)
(* RateLimiter.allow (limiter.py 16-35).                                   *)
(***************************************************************************)
RateLimitWindow(n, window_start) == [count |-> n, window_start |-> window_start]

\* a faulty limit: the request that finds the count at the limit is let in
allow_step_past_limit(window, now) ==
    LET expired == now - window.window_start > window_seconds
        current == IF expired THEN RateLimitWindow(0, now) ELSE window
    IN  IF current.count > max_requests
        THEN [window |-> current, returned |-> FALSE, expired |-> expired]
        ELSE [window |-> [current EXCEPT !.count = @ + 1], returned |-> TRUE,
              expired |-> expired]

\* lines 29-35: the window after the call, what the call returns, and
\* whether the window was started anew
allow_step(window, now) ==
    LET expired == now - window.window_start > window_seconds
        current == IF expired THEN RateLimitWindow(0, now) ELSE window
    IN  IF current.count >= max_requests
        THEN [window |-> current, returned |-> FALSE, expired |-> expired]
        ELSE [window |-> [current EXCEPT !.count = @ + 1], returned |-> TRUE,
              expired |-> expired]

\* lines 26-35.  now is read first (27); a key without window gets one from
\* the defaultdict factory (22-24, 28), whose window_start is a later reading
\* of the clock, created
allow(key, created) ==
    /\ created >= time
    /\ LET now == time
           fresh == _windows[key] = None
           window == IF fresh THEN RateLimitWindow(0, created) ELSE _windows[key][1]
           step == allow_step(window, now)
       IN  /\ _windows' = [_windows EXCEPT ![key] = Some(step.window)]
           /\ time' = IF fresh THEN created ELSE time
           /\ granted' = [granted EXCEPT ![key] =
                             (IF fresh \/ step.expired THEN 0 ELSE @)
                             + (IF step.returned THEN 1 ELSE 0)]
           /\ last_call' = [fn |-> "allow", key |-> key, value |-> Some(step.returned)]
    /\ UNCHANGED <<bucket_name, store, clock, req, last_writer, val, _store>>

(***************************************************************************)
(* InMemoryTTLCache (cache.py 19-44).  The dictionary _store is the        *)
(* sequence of its entries in insertion order, each with its key.          *)
(***************************************************************************)
CacheEntry(key, value, expires_at) ==
    [key |-> key, value |-> value, expires_at |-> expires_at]

\* the position of the key's entry; 0 when the key is not in the dictionary
position(entries, key) ==
    IF \E i \in 1..Len(entries) : entries[i].key = key
    THEN CHOOSE i \in 1..Len(entries) : entries[i].key = key
    ELSE 0

\* dict.pop(key, None)
pop(entries, key) ==
    LET i == position(entries, key)
    IN  IF i = 0 THEN entries
        ELSE SubSeq(entries, 1, i - 1) \o SubSeq(entries, i + 1, Len(entries))

\* line 39: min(self._store, key=...) is the first key, in insertion order,
\* whose expires_at is the least
oldest_key(entries) ==
    LET i == CHOOSE i \in 1..Len(entries) :
                 /\ \A j \in 1..Len(entries) : entries[i].expires_at <= entries[j].expires_at
                 /\ \A j \in 1..(i - 1) : entries[j].expires_at > entries[i].expires_at
    IN  entries[i].key

\* a faulty set: nothing is dropped from a full dictionary
set_entries_without_drop(entries, key, value, now) ==
    LET kept == entries
        entry == CacheEntry(key, value, now + ttl)
        i == position(kept, key)
    IN  IF i = 0 THEN Append(kept, entry) ELSE [kept EXCEPT ![i] = entry]

\* lines 36-41: the dictionary after set(key, value) at time now.  An
\* assignment to a key that is present keeps the key's place.
set_entries(entries, key, value, now) ==
    LET kept == IF Len(entries) >= max_items THEN pop(entries, oldest_key(entries))
                ELSE entries
        entry == CacheEntry(key, value, now + ttl)
        i == position(kept, key)
    IN  IF i = 0 THEN Append(kept, entry) ELSE [kept EXCEPT ![i] = entry]

set(key, value) ==
    /\ _store' = set_entries(_store, key, value, time)
    /\ last_call' = [fn |-> "set", key |-> key, value |-> None]
    /\ UNCHANGED <<bucket_name, store, clock, req, last_writer, val,
                   time, _windows, granted>>

\* lines 28-34: an entry that has expired is removed and None returned
get(key) ==
    /\ LET i == position(_store, key)
       IN  IF i = 0
           THEN /\ last_call' = [fn |-> "get", key |-> key, value |-> None]
                /\ UNCHANGED _store
           ELSE IF _store[i].expires_at < time
           THEN /\ last_call' = [fn |-> "get", key |-> key, value |-> None]
                /\ _store' = pop(_store, key)
           ELSE /\ last_call' = [fn |-> "get", key |-> key, value |-> Some(_store[i].value)]
                /\ UNCHANGED _store
    /\ UNCHANGED <<bucket_name, store, clock, req, last_writer, val,
                   time, _windows, granted>>

\* lines 43-44
clear ==
    /\ _store' = <<>>
    /\ last_call' = [fn |-> "clear", key |-> "", value |-> None]
    /\ UNCHANGED <<bucket_name, store, clock, req, last_writer, val,
                   time, _windows, granted>>

(***************************************************************************)
(* The specifications.                                                     *)
(*   Spec     the plan routes on overlapping requests                      *)
(*   SpecSeq  the plan routes, one request at a time, on richer inputs     *)
(*   SpecGen  DocumentGenerator.generate, step by step                     *)
(*   SpecVal  the validators, mutation by mutation                         *)
(*   SpecRev  the reviews of the critic                                    *)
(*   SpecPlan the round trip of a plan through its persisted form          *)
(*   SpecApproval  one approval, overlapping generate_from_plan calls      *)
(*   SpecLimiter   the calls of one RateLimiter                            *)
(*   SpecCache     the calls of one InMemoryTTLCache                       *)
(***************************************************************************)
Next ==
    \/ \E r \in Slots, u \in UserRequests, c \in Completions(OverlapOutlines),
          put_ok \in BOOLEAN : create_plan(r, u, c, put_ok)
    \/ \E r \in Slots, p \in PlanIds, get_ok \in BOOLEAN : view_plan(r, p, get_ok)
    \/ \E r \in Slots, p \in PlanIds, c \in OverlapComments, get_ok \in BOOLEAN :
          add_comment_get(r, p, c, get_ok)
    \/ \E r \in Slots, c \in Completions(OverlapOutlines), put_ok \in BOOLEAN :
          add_comment_refine(r, c, put_ok)
    \/ \E r \in Slots, p \in PlanIds, get_ok \in BOOLEAN : approve_plan_get(r, p, get_ok)
    \/ \E r \in Slots, put_ok \in BOOLEAN : approve_plan_save(r, put_ok)
    \/ \E r \in Slots, p \in PlanIds, get_ok \in BOOLEAN :
          generate_from_plan_get(r, p, get_ok)
    \/ \E r \in Slots, put_ok \in BOOLEAN : generate_from_plan_mark(r, put_ok)
    \/ \E r \in Slots, put_ok \in BOOLEAN :
          generate_from_plan_finish(r, OverlapDocs, put_ok)
    \/ \E r \in Slots : respond(r)

Spec == Init /\ [][Next]_vars

\* one request at a time: only the first slot serves
Sequential == {SlotOrder[1]}

NextSeq ==
    \/ Tick
    \/ \E r \in Sequential, u \in UserRequests, c \in Completions(SampleOutlines),
          put_ok \in BOOLEAN : create_plan(r, u, c, put_ok)
    \/ \E r \in Sequential, p \in PlanIds, get_ok \in BOOLEAN : view_plan(r, p, get_ok)
    \/ \E r \in Sequential, p \in PlanIds, c \in Comments, get_ok \in BOOLEAN :
          add_comment_get(r, p, c, get_ok)
    \/ \E r \in Sequential, c \in Completions(SampleOutlines), put_ok \in BOOLEAN :
          add_comment_refine(r, c, put_ok)
    \/ \E r \in Sequential, p \in PlanIds, get_ok \in BOOLEAN :
          approve_plan_get(r, p, get_ok)
    \/ \E r \in Sequential, put_ok \in BOOLEAN : approve_plan_save(r, put_ok)
    \/ \E r \in Sequential, p \in PlanIds, get_ok \in BOOLEAN :
          generate_from_plan_get(r, p, get_ok)
    \/ \E r \in Sequential, put_ok \in BOOLEAN : generate_from_plan_mark(r, put_ok)
    \/ \E r \in Sequential, put_ok \in BOOLEAN :
          generate_from_plan_finish(r, SampleDocs, put_ok)
    \/ \E r \in Sequential : respond(r)

SpecSeq == Init /\ [][NextSeq]_vars

NextGen ==
    \/ \E r \in Sequential, library_name \in BOOLEAN, requirements \in {""} \cup UserRequests,
          additional_context \in BOOLEAN :
          generate(r, library_name, requirements, additional_context)
    \/ \E r \in Sequential, outcome \in {"docs", "Context7Error", "error"} :
          gen_library(r, outcome)
    \/ \E r \in Sequential, outcome \in {"context", "KnowledgeBaseError"} : gen_kb(r, outcome)
    \/ \E r \in Sequential, render_ok \in BOOLEAN, c \in Completions(SampleDocs) :
          gen_complete(r, render_ok, c)
    \/ \E r \in Sequential : gen_review(r)
    \/ \E r \in Sequential, c \in Completions(SampleDocs) : gen_repair(r, c)
    \/ \E r \in Sequential : gen_end(r)
    \/ \E r \in Sequential : respond(r)

SpecGen == Init /\ [][NextGen]_vars

NextVal ==
    \/ \E content \in AllDocs \cup FencedDocs : validate_markdown_syntax_call(content)
    \/ \E content \in AllDocs \cup TwoBlockDocs : validate_mermaid_charts_call(content)
    \/ \E completion \in Completions(CritiqueResponses) :
          check_content_quality_call(completion)
    \/ validator_mutates
    \/ validator_returns

SpecVal == Init /\ [][NextVal]_vars

NextRev ==
    \/ \E content \in AllDocs,
          check_content \in {None} \cup {Some(c) : c \in Completions(SampleCritiques)} :
          full_review_call(content, check_content)
    \/ validator_returns

SpecRev == Init /\ [][NextRev]_vars

NextPlan ==
    \/ \E r \in Sequential, plan \in SamplePlans : round_trip(r, plan)
    \/ \E r \in Sequential : respond(r)

SpecPlan == Init /\ [][NextPlan]_vars

\* one plan, approved once (approve_plan is called while the record is
\* pending review and no other approval is in flight), and any number of
\* overlapping generate_from_plan calls
NextApproval ==
    \/ \E r \in Slots, u \in UserRequests, c \in Completions(OverlapOutlines),
          put_ok \in BOOLEAN : create_plan(r, u, c, put_ok)
    \/ \E r \in Slots, p \in PlanIds, get_ok \in BOOLEAN :
          /\ store[p] # None /\ store[p][1].status = status_value(PENDING_REVIEW)
          /\ \A q \in Slots : req[q].op # "approve_plan"
          /\ approve_plan_get(r, p, get_ok)
    \/ \E r \in Slots, put_ok \in BOOLEAN : approve_plan_save(r, put_ok)
    \/ \E r \in Slots, p \in PlanIds, get_ok \in BOOLEAN :
          generate_from_plan_get(r, p, get_ok)
    \/ \E r \in Slots, put_ok \in BOOLEAN : generate_from_plan_mark(r, put_ok)
    \/ \E r \in Slots, put_ok \in BOOLEAN :
          generate_from_plan_finish(r, OverlapDocs, put_ok)
    \/ \E r \in Slots : respond(r)

SpecApproval == Init /\ [][NextApproval]_vars

NextLimiter ==
    \/ time_passes
    \/ \E key \in Keys, created \in 0..MaxTime : allow(key, created)

SpecLimiter == Init /\ [][NextLimiter]_vars

NextCache ==
    \/ time_passes
    \/ \E key \in Keys, value \in Values : set(key, value)
    \/ \E key \in Keys : get(key)
    \/ clear

SpecCache == Init /\ [][NextCache]_vars

(***************************************************************************)
(* The claims.                                                             *)
(***************************************************************************)
\* C1 (as amended): one call of generate invokes the completion service at
\* most max_iterations + 1 = 6 times, once for the first draft and at most
\* once in each of the 5 iterations of the refinement loop.
C1_AtMostSixCompletions ==
    \A r \in Slots : req[r].gen.calls <= max_iterations + 1

\* C1 as stated: at most 5 completion calls in total (1 initial + at most 4
\* repairs)
C1_AtMostFiveCompletions ==
    \A r \in Slots : req[r].gen.calls <= 5

\* a call that returned behind the repair of its fifth iteration
C1_SixthCompletion ==
    \E r \in Slots :
        /\ req[r].op = "generate" /\ req[r].gen.pc = "returned"
        /\ req[r].gen.calls = max_iterations + 1
        /\ req[r].gen.refinement_iterations = max_iterations

\* the transitions of the documented state machine, on persisted values
C2_Transitions ==
    {<<"pending_review", "approved">>, <<"approved", "generating">>,
     <<"generating", "completed">>, <<"generating", "failed">>}

\* C2: across create_plan, add_comment, approve_plan and generate_from_plan
\* on one plan_id, the persisted status changes only along pending_review ->
\* approved -> generating -> completed or failed: never back, never out of
\* completed or failed.
C2_StatusOnlyAdvances ==
    [][\A p \in PlanIds :
          (/\ store[p] # None /\ store'[p] # None
           /\ store'[p][1].status # store[p][1].status)
              => <<store[p][1].status, store'[p][1].status>> \in C2_Transitions]_vars

\* C3: generate_from_plan returns absence when the plan does not exist and
\* when its status is not approved; in both cases it starts no generation
\* and writes no record, and the answer is the same in both.
C3_RefusalIsSilent ==
    \A r \in Slots :
        (/\ req[r].op = "generate_from_plan" /\ req[r].pc = "done"
         /\ (req[r].read = None \/ req[r].read[1].status # APPROVED))
            => /\ req[r].ret = None /\ req[r].exc = ""
               /\ req[r].gen = NoGeneration
               /\ ~req[r].wrote

\* one request refused for a missing plan while another is refused for a
\* plan that is completed
C3_BothRefusals ==
    \E r, q \in Slots :
        /\ req[r].op = "generate_from_plan" /\ req[r].pc = "done"
        /\ req[r].read = None /\ req[r].ret = None
        /\ req[q].op = "generate_from_plan" /\ req[q].pc = "done"
        /\ req[q].read # None /\ req[q].read[1].status = COMPLETED
        /\ req[q].ret = None

\* C4: for every ValidationResult of validate_markdown_syntax,
\* validate_mermaid_charts and check_content_quality, after every mutation
\* passed is false if and only if the issues hold at least one error.
C4_PassedIffNoError ==
    (~val.result.passed)
        <=> (\E i \in 1..Len(val.result.issues) : val.result.issues[i].severity = ERROR)

\* C5: once generate_from_plan has accepted an approved plan it ends with
\* status completed and final_document set when generation succeeded, and
\* with status failed and the error text in metadata["error"] when an
\* exception occurred after acceptance; that state is returned and persisted.
C5_AcceptedEndsCompletedOrFailed ==
    \A r \in Slots :
        (/\ req[r].op = "generate_from_plan" /\ req[r].pc = "done"
         /\ accepts(req[r].read))
            => /\ req[r].ret # None
               /\ IF req[r].gen.pc = "returned"
                  THEN /\ req[r].ret[1].status = COMPLETED
                       /\ req[r].ret[1].final_document # None
                       /\ req[r].ret[1].final_document = req[r].gen.content
                  ELSE /\ req[r].ret[1].status = FAILED
                       /\ req[r].ret[1].metadata.error # None
               /\ store[req[r].plan_id] = Some(to_dict(req[r].ret[1]))

\* C6 (as amended): generate_from_plan writes status generating before it
\* invokes the generation, so while the generation runs the persisted record
\* has status generating for as long as no other request has written the
\* record since.
C6_GeneratingUnlessOverwritten ==
    \A r \in Slots :
        (req[r].op = "generate_from_plan" /\ Generating(r))
            => /\ req[r].wrote
               /\ store[req[r].plan_id] # None
               /\ last_writer[req[r].plan_id] = r
                      => store[req[r].plan_id][1].status = "generating"

\* C6 as stated: at every moment while the generation runs the persisted
\* record has status generating
C6_AlwaysGenerating ==
    \A r \in Slots :
        (req[r].op = "generate_from_plan" /\ Generating(r))
            => /\ store[req[r].plan_id] # None
               /\ store[req[r].plan_id][1].status = "generating"

\* a generation runs on the record it marked while another request, which
\* read the record before the mark, is about to write it
C6_GenerationWithPendingWrite ==
    \E r, q \in Slots :
        /\ req[r].op = "generate_from_plan" /\ Generating(r)
        /\ last_writer[req[r].plan_id] = r
        /\ store[req[r].plan_id][1].status = "generating"
        /\ req[q].pc \in {"refine", "approve"} /\ req[q].plan_id = req[r].plan_id
        /\ req[q].read[1].status = APPROVED

\* C7: once create_plan has returned a plan (its record is in the store),
\* approve_plan returns that plan with status approved, and a following
\* generate_from_plan returns it with status completed or failed; when the
\* status is completed, final_document is non-empty.  (A failing store
\* write is another matter.)
C7_ApproveThenGenerate ==
    \A r \in Slots :
        /\ (/\ req[r].op = "approve_plan" /\ req[r].pc = "done"
            /\ req[r].read # None /\ req[r].exc # "put_object failed")
              => /\ req[r].ret # None
                 /\ req[r].ret[1].plan_id = req[r].plan_id
                 /\ req[r].ret[1].status = APPROVED
        /\ (/\ req[r].op = "generate_from_plan" /\ req[r].pc = "done"
            /\ accepts(req[r].read) /\ req[r].exc # "put_object failed")
              => /\ req[r].ret # None
                 /\ req[r].ret[1].plan_id = req[r].plan_id
                 /\ req[r].ret[1].status \in {COMPLETED, FAILED}
                 /\ req[r].ret[1].status = COMPLETED
                        => /\ req[r].ret[1].final_document # None
                           /\ req[r].ret[1].final_document[1] # <<>>

\* C8: for every text the completion returns, create_plan returns a plan
\* with status pending_review and at least one section (the parsed outline's
\* sections or the fallback section).  outline is set once the text was
\* parsed; a failing store write is another matter.
C8_CreatedPlanHasSections ==
    \A r \in Slots :
        (/\ req[r].op = "create_plan" /\ req[r].pc = "done"
         /\ req[r].outline # None /\ req[r].exc # "put_object failed")
            => /\ req[r].ret # None
               /\ req[r].ret[1].status = PENDING_REVIEW
               /\ Len(req[r].ret[1].sections) >= 1

C11_IsPrefix(s, t) == Len(s) <= Len(t) /\ SubSeq(t, 1, Len(s)) = s

\* the comments a request's write carries, given the comments it read
C11_WrittenComments(r) ==
    IF req[r].op = "add_comment"
    THEN Append(req[r].read[1].user_comments, req[r].comment)
    ELSE req[r].read[1].user_comments

C12_Writers == {"create_plan", "add_comment", "approve_plan", "generate_from_plan"}

\* C12: no write is rejected or merged.  Whenever the persisted record of a
\* plan changes, the new record is exactly the plan the writing operation
\* holds (built from what that operation read, not from what is stored), and
\* an operation that returns its plan while a bucket is configured has left
\* exactly that plan in the store as the last write.
C12_LastWriteWins ==
    [][/\ \A p \in PlanIds :
              store'[p] # store[p]
                  => /\ last_writer'[p] # NoSlot
                     /\ store'[p] = Some(to_dict(req'[last_writer'[p]].plan[1]))
       /\ \A r \in Slots :
              (/\ req[r].pc # "done" /\ req'[r].pc = "done"
               /\ req'[r].op \in C12_Writers /\ req'[r].ret # None /\ bucket_name)
                  => /\ store'[req'[r].ret[1].plan_id] = Some(to_dict(req'[r].ret[1]))
                     /\ last_writer'[req'[r].ret[1].plan_id] = r]_vars

\* an approval persisted while add_comment was running is overwritten by
\* add_comment's later write: the record is pending_review again
C12_ApprovalOverwritten ==
    \E r, q \in Slots :
        /\ req[r].op = "add_comment" /\ req[r].pc = "done" /\ req[r].wrote
        /\ req[q].op = "approve_plan" /\ req[q].pc = "done" /\ req[q].wrote
        /\ req[q].plan_id = req[r].plan_id
        /\ req[q].ret # None /\ req[q].ret[1].status = APPROVED
        /\ req[q].read # None /\ req[q].read[1].user_comments = <<>>
        /\ last_writer[req[r].plan_id] = r
        /\ store[req[r].plan_id] = Some(to_dict(req[r].ret[1]))
        /\ store[req[r].plan_id][1].status = status_value(PENDING_REVIEW)

\* the operations that start by reading the record of a plan_id
C13_Readers == {"get_plan", "add_comment", "approve_plan", "generate_from_plan"}

\* C13: get_plan, add_comment, approve_plan and generate_from_plan called
\* with a plan_id that has no persisted record return None at once: nothing
\* is raised, no completion is requested (no outline parsed, no generation
\* started) and the store is not written.
C13_MissingPlanGivesNone ==
    [][\A r \in Slots :
          (/\ req[r].pc = "idle" /\ req'[r].pc # "idle"
           /\ req'[r].op \in C13_Readers
           /\ store[req'[r].plan_id] = None)
              => /\ req'[r].pc = "done"
                 /\ req'[r].ret = None /\ req'[r].exc = ""
                 /\ req'[r].outline = None /\ req'[r].gen = NoGeneration
                 /\ ~req'[r].wrote
                 /\ store' = store /\ last_writer' = last_writer]_vars

\* generate_from_plan has answered None for a plan_id that was never stored,
\* with a bucket configured
C13_GenerateOfMissingPlan ==
    \E r \in Slots :
        /\ bucket_name
        /\ req[r].op = "generate_from_plan" /\ req[r].pc = "done"
        /\ store[req[r].plan_id] = None
        /\ req[r].read = None /\ req[r].ret = None /\ req[r].exc = ""

\* C14: a store that is unavailable does not fail a plan operation.  Every
\* create_plan, add_comment, approve_plan or generate_from_plan that built
\* its plan (its completion calls and its parsing went through) returns that
\* in-memory plan and raises nothing, whether or not the record was written.
C14_StoreFailureDoesNotFailRequest ==
    \A r \in Slots :
        (/\ req[r].pc = "done" /\ req[r].op \in C12_Writers
         /\ req[r].plan # None
         /\ req[r].exc \notin {"completion failed", "AttributeError"})
            => /\ req[r].exc = ""
               /\ req[r].ret = req[r].plan

\* the step of slot r is create_plan or add_comment ending behind its
\* completion call without an outline: the completion call failed
C15_CompletionFailed(r) ==
    /\ req[r].pc # "done" /\ req'[r].pc = "done"
    /\ req'[r].outline = None
    /\ \/ req'[r].op = "create_plan"
       \/ req'[r].op = "add_comment" /\ req[r].pc = "refine"

\* C15: a completion failure inside create_plan or add_comment propagates to
\* the caller and leaves the store as it was: nothing is returned, the
\* handler raises, and no record, comment, section, title or updated_at is
\* written.
C15_CompletionFailureWritesNothing ==
    [][\A r \in Slots :
          C15_CompletionFailed(r)
              => /\ req'[r].exc = "completion failed"
                 /\ req'[r].ret = None
                 /\ ~req'[r].wrote
                 /\ store' = store /\ last_writer' = last_writer]_vars

\* add_comment has raised behind its completion call: the comment is in the
\* in-memory plan only, the stored record has no comment
C15_CommentNotPersisted ==
    \E r \in Slots :
        /\ req[r].op = "add_comment" /\ req[r].pc = "done"
        /\ req[r].exc = "completion failed"
        /\ req[r].plan # None /\ req[r].plan[1].user_comments = <<req[r].comment>>
        /\ store[req[r].plan_id] # None
        /\ store[req[r].plan_id][1].user_comments = <<>>

\* C16: once the template has rendered and the first completion has come
\* back (the refinement loop has been entered), generate fails only through a
\* failing completion call: it never raises for any other reason, whatever
\* the reviews say, and so returns a document when every completion succeeds.
C16_LoopRaisesOnlyForCompletion ==
    \A r \in Slots :
        (req[r].gen.pc = "raised" /\ req[r].gen.iteration >= 0)
            => req[r].gen.error = "completion failed"

\* C17: the refinement_iterations of a returned document is the number of
\* repairs made (every completion call but the first), so 0 when the review
\* of the initial content passed.
C17_CountsRepairs ==
    \A r \in Slots :
        req[r].gen.pc = "returned"
            => req[r].gen.refinement_iterations = req[r].gen.calls - 1

\* C18: the review of the refinement loop (full_review with check_content
\* false) asks for no completion: the review step leaves the number of
\* completion calls as it is and its report has no content_result, so the
\* calls made never exceed the first completion plus one repair for each
\* iteration begun.
C18_ReviewMakesNoCompletionCall ==
    [][\A r \in Slots :
          /\ (Generating(r) /\ req[r].gen.pc = "review" /\ Generating(r)')
                 => /\ req'[r].gen.calls = req[r].gen.calls
                    /\ full_review(req[r].gen.content[1], None).content_result = None
          /\ req'[r].gen.calls <= req'[r].gen.iteration + 2]_vars

\* the second review has failed: two iterations begun, and only the first
\* completion and one repair have been called
C18_SecondReviewFailed ==
    \E r \in Slots :
        /\ Generating(r) /\ req[r].gen.pc = "repair"
        /\ req[r].gen.iteration = 1 /\ req[r].gen.calls = 2
        /\ ~full_review(req[r].gen.content[1], None).overall_passed

\* C19: check_content_quality fails open.  When the completion call raised or
\* its response holds no JSON object, the finished result has exactly one
\* issue, a warning, and passed is true.
C19_FailsOpenWithOneWarning ==
    (/\ val.fn = "check_content_quality" /\ val.todo = <<>>
     /\ (val.input = None \/ json_match(val.input[1]) = None))
        => /\ Len(val.result.issues) = 1
           /\ val.result.issues[1].severity = WARNING
           /\ val.result.passed

\* the issues of a report: markdown, mermaid and, when present, content
C20_AllIssues(report) ==
    report.markdown_result.issues \o report.mermaid_result.issues
    \o (IF report.content_result = None THEN <<>> ELSE report.content_result[1].issues)

C20_Number(issues, severity) ==
    Cardinality({i \in 1..Len(issues) : issues[i].severity = severity})

\* C20: in every report of full_review, total_errors and total_warnings are
\* the numbers of error and warning issues over the markdown, the mermaid
\* and (when the content check ran) the content result, and overall_passed
\* is true exactly when total_errors is 0.
C20_ReportTotals ==
    val.fn = "full_review"
        => /\ val.result.total_errors = C20_Number(C20_AllIssues(val.result), ERROR)
           /\ val.result.total_warnings = C20_Number(C20_AllIssues(val.result), WARNING)
           /\ val.result.overall_passed <=> (val.result.total_errors = 0)
           /\ (val.result.content_result = None) <=> (val.input = None)

\* a report whose errors come from the markdown check and from the content
\* check together
C20_ErrorsFromTwoChecks ==
    /\ val.fn = "full_review"
    /\ val.result.content_result # None
    /\ C20_Number(val.result.content_result[1].issues, ERROR) >= 1
    /\ C20_Number(val.result.markdown_result.issues, ERROR) >= 1
    /\ val.result.total_errors >= 2
    /\ ~val.result.overall_passed

\* the rank of a part of the context: documentation (or its placeholder),
\* knowledge-base passages, additional context
C21_Rank(part) ==
    CASE part \in {"library_context", "library_placeholder"} -> 1
      [] part = "kb_context" -> 2
      [] OTHER -> 3

\* C21: the parts of the context are always in the fixed order documentation
\* (or placeholder), knowledge-base passages, additional context: at every
\* point of a call the ranks of the parts collected so far strictly increase.
C21_ContextPartsInOrder ==
    \A r \in Slots :
        \A i, j \in 1..Len(req[r].gen.context_parts) :
            i < j => C21_Rank(req[r].gen.context_parts[i]) < C21_Rank(req[r].gen.context_parts[j])

\* a call whose documentation lookup failed reaches the review with all
\* three parts: placeholder, passages, additional context
C21_AllThreeParts ==
    \E r \in Slots :
        /\ req[r].gen.pc = "review"
        /\ req[r].gen.context_parts =
               <<"library_placeholder", "kb_context", "additional_context">>

\* C22: a failing documentation lookup or knowledge-base lookup never fails
\* generate: a call that raised before any completion call was made raised
\* for its template, never for a provider.
C22_ProvidersNeverFailGenerate ==
    \A r \in Slots :
        (req[r].gen.pc = "raised" /\ req[r].gen.calls = 0)
            => req[r].gen.error = "Template error"

\* C23: within one call the steps come one after the other.  The
\* knowledge-base fetch begins only when the documentation fetch is over (or
\* was not asked for), the prompt and its completion begin only when the
\* fetches that were asked for are over, and the first completion call is
\* made from there.
C23_FetchesInSequence ==
    [][\A r \in Slots :
          LET g == req[r].gen
              h == req'[r].gen
          IN  /\ (h.pc = "kb" /\ g.pc # "kb")
                     => \/ g.pc = "library"
                        \/ g.pc = "none" /\ ~h.library_name
              /\ (h.pc = "complete" /\ g.pc # "complete")
                     => \/ g.pc = "kb"
                        \/ g.pc = "library" /\ g.requirements = ""
                        \/ g.pc = "none" /\ ~h.library_name /\ h.requirements = ""
              /\ (h.calls > 0 /\ g.calls = 0) => g.pc = "complete"]_vars

\* both fetches are over and the completion has not been called yet
C23_BothFetchesDone ==
    \E r \in Slots :
        /\ req[r].gen.pc = "complete" /\ req[r].gen.calls = 0
        /\ req[r].gen.context_parts = <<"library_context", "kb_context">>

\* C24: for every plan p, from_dict(to_dict(p)) equals p field for field:
\* status, sections in order, user_comments in order, final_document,
\* metadata and the rest.
C24_RoundTrip ==
    \A r \in Slots :
        req[r].op = "round_trip"
            => /\ req[r].ret = req[r].plan
               /\ \A f \in DOMAIN req[r].plan[1] : req[r].ret[1][f] = req[r].plan[1][f]

\* the round trip of a completed plan with two different sections, two
\* comments and a final document, whose persisted status is the value string
C24_RichPlanRoundTrip ==
    \E r \in Slots :
        /\ req[r].op = "round_trip" /\ req[r].pc = "done"
        /\ req[r].plan[1].status = COMPLETED
        /\ to_dict(req[r].plan[1]).status = "completed"
        /\ Len(req[r].plan[1].sections) = 2
        /\ req[r].plan[1].sections[1] # req[r].plan[1].sections[2]
        /\ req[r].plan[1].user_comments = <<"c2", "c1">>
        /\ req[r].plan[1].final_document # None
        /\ req[r].ret[1].user_comments = <<"c2", "c1">>

\* the section list of the fallback outline
C25_FallbackSections ==
    <<SectionOutline("Overview", "Introduction and overview", <<>>, "medium")>>

\* C25: a response without a parsable JSON outline is replaced by the
\* fallback outline and nothing is raised: create_plan and add_comment return
\* a plan whose title is "Document" and whose sections are the one section
\* "Overview" (create_plan: of document_type "custom").
C25_UnparsableGivesFallback ==
    \A r \in Slots :
        (/\ req[r].op \in {"create_plan", "add_comment"} /\ req[r].pc = "done"
         /\ req[r].outline = Some(FALLBACK_OUTLINE))
            => /\ req[r].exc = ""
               /\ req[r].ret # None
               /\ req[r].ret[1].title = "Document"
               /\ req[r].ret[1].sections = C25_FallbackSections
               /\ req[r].op = "create_plan" => req[r].ret[1].document_type = "custom"

\* the same with the failure of the store set aside: what remains of C25 when
\* put_object does not raise
C25_FallbackUnlessPutFails ==
    \A r \in Slots :
        (/\ req[r].op \in {"create_plan", "add_comment"} /\ req[r].pc = "done"
         /\ req[r].outline = Some(FALLBACK_OUTLINE)
         /\ req[r].exc # "put_object failed")
            => /\ req[r].exc = ""
               /\ req[r].ret # None
               /\ req[r].ret[1].title = "Document"
               /\ req[r].ret[1].sections = C25_FallbackSections
               /\ req[r].op = "create_plan" => req[r].ret[1].document_type = "custom"

\* the numbers of the fence lines of a text: the lines that start, blanks
\* stripped, with three backticks
C26_FenceLines(content) ==
    {i \in 1..Len(split_lines(content)) : startswith(strip(split_lines(content)[i]), FENCE)}

C26_Unclosed(result) ==
    {i \in 1..Len(result.issues) : result.issues[i].kind = "unclosed_code_block"}

\* C26: when a fence is still open at the end of the input (the fence lines
\* are odd in number, the last of them at line L opened it),
\* validate_markdown_syntax reports exactly one unclosed-code-block error, at
\* line L, and passed is false; when every fence is closed it reports none.
C26_UnclosedFenceReported ==
    (val.fn = "validate_markdown_syntax" /\ val.todo = <<>>)
        => LET fences == C26_FenceLines(val.input[1])
               unclosed == C26_Unclosed(val.result)
           IN  IF Cardinality(fences) % 2 = 1
               THEN /\ Cardinality(unclosed) = 1
                    /\ \A i \in unclosed :
                          /\ val.result.issues[i].severity = ERROR
                          /\ val.result.issues[i].line_number
                                 = CHOOSE l \in fences : \A m \in fences : m <= l
                    /\ ~val.result.passed
               ELSE unclosed = {}

\* a text whose second line opens a fence that is never closed: the error
\* names line 2
C26_FenceOpenedAtSecondLine ==
    /\ val.fn = "validate_markdown_syntax" /\ val.todo = <<>>
    /\ C26_FenceLines(val.input[1]) = {2}
    /\ \E i \in C26_Unclosed(val.result) : val.result.issues[i].line_number = 2

\* the heading lines of a text outside fences: not a fence line, an even
\* number of fence lines before it, and "#" first once blanks are stripped
C27_Headings(content) ==
    LET lines == split_lines(content)
    IN  {i \in 1..Len(lines) :
            /\ i \notin C26_FenceLines(content)
            /\ Cardinality({j \in C26_FenceLines(content) : j < i}) % 2 = 0
            /\ startswith(strip(lines[i]), <<"#">>)}

\* the heading lines that skip: an earlier heading exists and the level is
\* more than one above the level of the nearest earlier heading
C27_Skips(content) ==
    LET lines == split_lines(content)
        H == C27_Headings(content)
    IN  {i \in H :
            \E j \in H :
                /\ j < i /\ \A k \in H : k < i => k <= j
                /\ heading_level(strip(lines[i])) > heading_level(strip(lines[j])) + 1}

C27_SkipIssues(result) ==
    {i \in 1..Len(result.issues) : result.issues[i].kind = "heading_skip"}

\* C27: validate_markdown_syntax warns of a heading skip exactly at the
\* heading lines outside fences whose level is more than one above the level
\* of the most recent earlier heading, once for each; the first heading never
\* warns; the text "# A", "### C" gives exactly one such warning and no error.
C27_HeadingSkipWarnings ==
    (val.fn = "validate_markdown_syntax" /\ val.todo = <<>>)
        => LET skips == C27_SkipIssues(val.result)
           IN  /\ {val.result.issues[i].line_number : i \in skips} = C27_Skips(val.input[1])
               /\ Cardinality(skips) = Cardinality(C27_Skips(val.input[1]))
               /\ \A i \in skips : val.result.issues[i].severity = WARNING
               /\ val.input[1] = <<"#", " ", "A", NL, "#", "#", "#", " ", "C">>
                      => /\ Cardinality(skips) = 1
                         /\ C20_Number(val.result.issues, ERROR) = 0

\* the text "# A", "### C" has been validated: one warning, at line 2
C27_LevelOneThenThree ==
    /\ val.fn = "validate_markdown_syntax" /\ val.todo = <<>>
    /\ val.input = Some(<<"#", " ", "A", NL, "#", "#", "#", " ", "C">>)
    /\ Len(val.result.issues) = 1
    /\ val.result.issues[1].kind = "heading_skip"
    /\ val.result.issues[1].line_number = 2
    /\ val.result.passed

\* the first line of a block that is not blank, stripped; empty when the
\* block is empty or blank
C28_FirstNonBlank(block) ==
    LET ls == split_lines(block)
        nb == {j \in 1..Len(ls) : strip(ls[j]) # <<>>}
    IN  IF nb = {} THEN <<>>
        ELSE strip(ls[CHOOSE j \in nb : \A k \in nb : j <= k])

\* C28: every diagram block whose first non-blank line does not start with a
\* keyword of the vocabulary (an empty or blank block included) has at least
\* one error that names the block's number, and passed is false.
C28_UnknownDiagramTypeIsError ==
    (val.fn = "validate_mermaid_charts" /\ val.todo = <<>>)
        => LET blocks == mermaid_blocks(val.input[1])
           IN  \A i \in 1..Len(blocks) :
                   ~valid_type(C28_FirstNonBlank(blocks[i]))
                       => /\ \E k \in 1..Len(val.result.issues) :
                                 /\ val.result.issues[k].severity = ERROR
                                 /\ val.result.issues[k].block = i
                          /\ ~val.result.passed

\* a text of two blocks, the first a flowchart, the second empty: the error
\* names block 2
C28_SecondBlockEmpty ==
    /\ val.fn = "validate_mermaid_charts" /\ val.todo = <<>>
    /\ Len(mermaid_blocks(val.input[1])) = 2
    /\ valid_type(C28_FirstNonBlank(mermaid_blocks(val.input[1])[1]))
    /\ C28_FirstNonBlank(mermaid_blocks(val.input[1])[2]) = <<>>
    /\ \E k \in 1..Len(val.result.issues) :
           val.result.issues[k].kind = "invalid_type" /\ val.result.issues[k].block = 2
    /\ \A k \in 1..Len(val.result.issues) : val.result.issues[k].block # 1

\* C29: for a text without a fenced diagram block validate_mermaid_charts
\* returns passed = true, exactly one issue, of severity info, and
\* checked_items = 0; for a text of n >= 1 blocks checked_items is n and no
\* info issue is among the issues.
C29_BlockCountAndInfo ==
    (val.fn = "validate_mermaid_charts" /\ val.todo = <<>>)
        => LET n == Len(mermaid_blocks(val.input[1]))
           IN  IF n = 0
               THEN /\ val.result.passed
                    /\ Len(val.result.issues) = 1
                    /\ val.result.issues[1].severity = INFO
                    /\ val.result.checked_items = 0
               ELSE /\ val.result.checked_items = n
                    /\ C20_Number(val.result.issues, INFO) = 0

\* a text of two flowcharts has been validated: two items checked, no issue
C29_TwoValidBlocks ==
    /\ val.fn = "validate_mermaid_charts" /\ val.todo = <<>>
    /\ val.input[1] \in TwoBlockDocs
    /\ val.result.checked_items = 2
    /\ val.result.issues = <<>>
    /\ val.result.passed

\* the lines of a text that are fence lines or lie behind an opening fence
\* line that is not closed before them
C30_Fenced(content) ==
    {i \in 1..Len(split_lines(content)) :
        \/ i \in C26_FenceLines(content)
        \/ Cardinality({j \in C26_FenceLines(content) : j < i}) % 2 = 1}

\* C30: no fence line and no line inside a fence ever produces a heading,
\* link or inline-code issue, and the headings inside a fence are not put on
\* the list of heading levels: the list holds the headings outside fences.
C30_FencedLinesAreExempt ==
    (val.fn = "validate_markdown_syntax" /\ val.todo = <<>>)
        => /\ \A k \in 1..Len(val.result.issues) :
                  val.result.issues[k].kind
                          \in {"heading_level", "heading_skip", "empty_url", "inline_code"}
                      => val.result.issues[k].line_number \notin C30_Fenced(val.input[1])
           /\ Len(markdown_scan(split_lines(val.input[1]), 1, FALSE, 0, <<>>).heading_levels)
                  = Cardinality(C27_Headings(val.input[1]))

\* a level-1 heading inside a closed fence and a level-3 heading behind the
\* fence: no warning, the heading behind the fence is the first one
C30_HeadingInsideFence ==
    /\ val.fn = "validate_markdown_syntax" /\ val.todo = <<>>
    /\ val.input = Some(join_lines(<<FENCE, <<"#", " ", "A">>, FENCE,
                                     <<"#", "#", "#", " ", "C">>>>))
    /\ val.result.issues = <<>>
    /\ val.result.checked_items = 4

\* the number of characters of s that belong to the set cs
C31_Chars(s, cs) == Cardinality({p \in 1..Len(s) : s[p] \in cs})

\* the number of issues of one kind and severity that name block i
C31_Findings(issues, kind, severity, i) ==
    Cardinality({k \in 1..Len(issues) :
                    /\ issues[k].kind = kind
                    /\ issues[k].severity = severity
                    /\ issues[k].block = i})

\* C31: validate_mermaid_charts gives a block exactly one warning for
\* unbalanced brackets when its opening and closing bracket characters differ
\* in number (none otherwise), and exactly one error for an unclosed subgraph
\* when its subgraph and end keywords differ in number (none otherwise); a
\* result whose only findings are bracket warnings has passed = true.
C31_BracketWarningSubgraphError ==
    (val.fn = "validate_mermaid_charts" /\ val.todo = <<>>)
        => LET blocks == mermaid_blocks(val.input[1])
               issues == val.result.issues
           IN  /\ \A i \in 1..Len(blocks) :
                      /\ C31_Findings(issues, "unbalanced_brackets", WARNING, i)
                             = IF C31_Chars(blocks[i], {"[", "{", "("})
                                      # C31_Chars(blocks[i], {"]", "}", ")"})
                               THEN 1 ELSE 0
                      /\ C31_Findings(issues, "unbalanced_brackets", ERROR, i) = 0
                      /\ C31_Findings(issues, "unclosed_subgraph", ERROR, i)
                             = IF count_word(blocks[i], SUBGRAPH, 1)
                                      # count_word(blocks[i], END_WORD, 1)
                               THEN 1 ELSE 0
                      /\ C31_Findings(issues, "unclosed_subgraph", WARNING, i) = 0
               /\ (\A k \in 1..Len(issues) : issues[k].kind = "unbalanced_brackets")
                      => val.result.passed

\* a text of two blocks has been validated: the first a flowchart with an open
\* bracket, the second a flowchart with a closing keyword; one warning names
\* block 1, one unclosed-subgraph error names block 2
C31_OpenBracketThenEnd ==
    /\ val.fn = "validate_mermaid_charts" /\ val.todo = <<>>
    /\ val.input[1] \in TwoBlockDocs
    /\ Len(val.result.issues) = 2
    /\ val.result.issues[1].kind = "unbalanced_brackets"
    /\ val.result.issues[1].severity = WARNING
    /\ val.result.issues[1].block = 1
    /\ val.result.issues[2].kind = "unclosed_subgraph"
    /\ val.result.issues[2].severity = ERROR
    /\ val.result.issues[2].block = 2
    /\ ~val.result.passed

\* a text of two blocks whose only finding is one bracket warning: passed
C31_OnlyBracketWarning ==
    /\ val.fn = "validate_mermaid_charts" /\ val.todo = <<>>
    /\ val.input[1] \in TwoBlockDocs
    /\ Len(val.result.issues) = 1
    /\ val.result.issues[1].kind = "unbalanced_brackets"
    /\ val.result.passed

\* C32: in the refinement loop a review that fails has a non-empty list of
\* collected markdown and mermaid issues, so the loop goes on to the repair
\* (the early stop for a failed review without issues is never taken), and
\* the repair step that follows makes a completion call.
C32_FailedReviewIsRepaired ==
    [][\A r \in Slots :
          LET g == req[r].gen
              h == req'[r].gen
          IN  /\ (/\ Generating(r) /\ g.pc = "review" /\ h # g
                  /\ ~full_review(g.content[1], None).overall_passed)
                     => /\ collected_issues(full_review(g.content[1], None)) # <<>>
                        /\ h.pc = "repair"
              /\ (Generating(r) /\ g.pc = "repair" /\ h # g)
                     => h.calls = g.calls + 1]_vars

\* the part of C32 about the early stop: a failed review has collected
\* issues and leads to the repair step
C32_FailedReviewHasIssues ==
    [][\A r \in Slots :
          LET g == req[r].gen
              h == req'[r].gen
          IN  (/\ Generating(r) /\ g.pc = "review" /\ h # g
               /\ ~full_review(g.content[1], None).overall_passed)
                  => /\ collected_issues(full_review(g.content[1], None)) # <<>>
                     /\ h.pc = "repair"]_vars

\* the repair step makes its completion call unless the repair prompt fails
\* to render
C32_RepairCallsUnlessRenderFails ==
    [][\A r \in Slots :
          LET g == req[r].gen
              h == req'[r].gen
          IN  (Generating(r) /\ g.pc = "repair" /\ h # g)
                  => \/ h.calls = g.calls + 1
                     \/ h.pc = "raised" /\ h.error = "bad escape"]_vars

\* C33: generate returns either from a review that passed, with the content
\* that review looked at, or from the repair of the last of the
\* max_iterations iterations, with the content of that repair call (the
\* sixth completion call), which no review has looked at.
C33_ReturnedContentPassedOrLastRepair ==
    [][\A r \in Slots :
          LET g == req[r].gen
              h == req'[r].gen
          IN  (Generating(r) /\ h.pc = "returned" /\ g.pc # "returned")
                  => \/ /\ g.pc = "review"
                        /\ h.content = g.content
                        /\ full_review(h.content[1], None).overall_passed
                        /\ h.calls <= max_iterations
                     \/ /\ g.pc = "repair"
                        /\ g.iteration = max_iterations - 1
                        /\ h.iteration = g.iteration
                        /\ h.calls = g.calls + 1
                        /\ h.calls = max_iterations + 1]_vars

\* a call has returned behind five repairs with a content that fails the
\* review
C33_UnreviewedContentReturned ==
    \E r \in Slots :
        /\ req[r].op = "generate" /\ req[r].gen.pc = "returned"
        /\ req[r].gen.calls = max_iterations + 1
        /\ ~full_review(req[r].gen.content[1], None).overall_passed

\* C34: in every report of full_review, overall_passed is true exactly when
\* markdown_result.passed, mermaid_result.passed and, when the content check
\* ran, content_result.passed are all true.
C34_OverallPassedIffAllPassed ==
    val.fn = "full_review"
        => (val.result.overall_passed
                <=> /\ val.result.markdown_result.passed
                    /\ val.result.mermaid_result.passed
                    /\ (val.result.content_result # None
                            => val.result.content_result[1].passed))

\* what holds of overall_passed instead: the content result counts through
\* its error issues, not through its passed flag
C34_OverallPassedIffNoErrorIssue ==
    val.fn = "full_review"
        => (val.result.overall_passed
                <=> /\ val.result.markdown_result.passed
                    /\ val.result.mermaid_result.passed
                    /\ (val.result.content_result # None
                            => C20_Number(val.result.content_result[1].issues, ERROR) = 0))

\* the generate_from_plan calls on plan p that have passed the status check
\* and have not ended
C35_Running(p) ==
    {r \in Slots : /\ req[r].op = "generate_from_plan" /\ req[r].plan_id = p
                   /\ req[r].pc \in {"mark", "generate"}}

\* C35 as stated: of the generate_from_plan calls on one plan that was
\* approved once, at most one at a time has passed the status check and runs
\* the generation.
C35_AtMostOneGenerates ==
    \A p \in PlanIds : Cardinality(C35_Running(p)) <= 1

\* C35 (amended): a generate_from_plan call passes the status check exactly
\* when the record it read has the status approved; a call that read no
\* record or another status ends with absence and writes nothing.  The check
\* and the write of the generating status are two store operations, so every
\* call that reads the record before another call's write passes as well.
C35_PassesOnApprovedRead ==
    \A r \in Slots :
        req[r].op = "generate_from_plan"
            => IF req[r].read # None /\ req[r].read[1].status = APPROVED
               THEN \/ req[r].pc \in {"mark", "generate"}
                    \/ req[r].pc = "done" /\ (req[r].ret # None \/ req[r].exc # "")
               ELSE /\ req[r].pc = "done"
                    /\ req[r].ret = None /\ req[r].exc = "" /\ ~req[r].wrote

\* two overlapping calls on the plan approved once both run the generation
C35_TwoCallsGenerate ==
    \E p \in PlanIds :
        /\ Cardinality(C35_Running(p)) = 2
        /\ \A r \in C35_Running(p) : req[r].pc = "generate" /\ req[r].wrote

\* a call that read the record behind another call's generating write has
\* ended with absence while that call runs the generation
C35_LateCallGetsAbsence ==
    \E r, q \in Slots :
        /\ req[r].op = "generate_from_plan" /\ req[r].pc = "generate"
        /\ req[q].op = "generate_from_plan" /\ req[q].pc = "done"
        /\ req[q].read # None /\ req[q].read[1].status = GENERATING
        /\ req[q].ret = None

\* C36: once the persisted record of a plan has left pending review (it was
\* approved), no step changes its sections or its title, so the outline
\* generate_from_plan reads is the one that was persisted by approve_plan.
C36_ApprovedOutlineIsFrozen ==
    [][\A p \in PlanIds :
          (store[p] # None /\ store[p][1].status # status_value(PENDING_REVIEW))
              => /\ store'[p] # None
                 /\ store'[p][1].sections = store[p][1].sections
                 /\ store'[p][1].title = store[p][1].title]_vars

\* what holds instead: approve_plan and generate_from_plan write the
\* sections and the title they read; only add_comment writes others
C36_OnlyAddCommentChangesOutline ==
    [][\A p \in PlanIds :
          (/\ store[p] # None /\ store'[p] # None
           /\ \/ store'[p][1].sections # store[p][1].sections
              \/ store'[p][1].title # store[p][1].title)
              => \E r \in Slots : req[r].op = "add_comment" /\ req[r].plan_id = p]_vars

\* C37: for every key the number of times allow returned True since the
\* key's window was started is at most max_requests and is the window's
\* count, which never exceeds max_requests; and a window is started anew (its
\* start moves, its count falls) only by an allow call on that key made more
\* than window_seconds after the window's start, which sets the start to the
\* time of the call.
C37_AtMostMaxRequestsPerWindow ==
    /\ [](\A k \in Keys :
             /\ granted[k] <= max_requests
             /\ _windows[k] # None
                    => /\ _windows[k][1].count = granted[k]
                       /\ _windows[k][1].count <= max_requests)
    /\ [][\A k \in Keys :
             (/\ _windows[k] # None
              /\ \/ _windows'[k][1].window_start # _windows[k][1].window_start
                 \/ _windows'[k][1].count < _windows[k][1].count
                 \/ granted'[k] < granted[k])
                 => /\ last_call'.fn = "allow" /\ last_call'.key = k
                    /\ time - _windows[k][1].window_start > window_seconds
                    /\ _windows'[k][1].window_start = time]_vars

\* a window that started later than window_seconds has let max_requests
\* calls in and has turned the next call down
C37_LimitReachedAfterReset ==
    \E k \in Keys :
        /\ _windows[k] # None
        /\ _windows[k][1].window_start > window_seconds
        /\ _windows[k][1].count = max_requests
        /\ granted[k] = max_requests
        /\ last_call = [fn |-> "allow", key |-> k, value |-> Some(FALSE)]

\* C38: the cache never holds more than max_items entries, and a get that
\* returned a value returned the value of the key's entry, whose expiry time
\* is not earlier than the current time; a get that returned absent leaves no
\* entry for the key (an expired entry has been removed).
C38_BoundedAndNeverExpired ==
    /\ Len(_store) <= max_items
    /\ \A i, j \in 1..Len(_store) : _store[i].key = _store[j].key => i = j
    /\ last_call.fn = "get"
           => IF last_call.value # None
              THEN \E i \in 1..Len(_store) :
                       /\ _store[i].key = last_call.key
                       /\ _store[i].value = last_call.value[1]
                       /\ _store[i].expires_at >= time
              ELSE \A i \in 1..Len(_store) : _store[i].key # last_call.key

\* the cache is full, one of its entries has expired, and a get has returned
\* the value of an entry at the very time of its expiry
C38_ValueAtExpiryTime ==
    /\ Len(_store) = max_items
    /\ \E i \in 1..Len(_store) : _store[i].expires_at < time
    /\ last_call.fn = "get" /\ last_call.value # None
    /\ \E i \in 1..Len(_store) :
           _store[i].key = last_call.key /\ _store[i].expires_at = time

====
